---- MODULE Spec2Model ----
(***************************************************************************)
(* Dependency resolution and compilation pipeline of pal-node.             *)
(*                                                                         *)
(* Resolver (core/resolver.ts): resolveDependencies, the recursive         *)
(* loadDependencyRecursive with its per-call visitedPaths set, and the     *)
(* ResolverCache shared by every call made on one Resolver.                *)
(*                                                                         *)
(* A path is a record [kind, segs, ext]: "/d/a.pal" is                     *)
(* [kind |-> "abs", segs |-> <<"d", "a">>, ext |-> ".pal"]; a directory    *)
(* has ext "".  A composition is a sequence of lines, each line one        *)
(* lexical item of the template text (a literal, a {{ alias.component }}   *)
(* reference, a {{ name }} variable, an include directive).                *)
(***************************************************************************)
EXTENDS Integers, Sequences, FiniteSets, TLC

VARIABLES
    world,      \* the import declarations of the assembly files a.pal, b.yml
    cache,      \* ResolverCache.cache: path -> ComponentLibrary
    calls,      \* the calls made on the Resolver so far, each with its stack
    loadCount,  \* Loader invocations so far, per path
    cleared,    \* number of cache.clear() calls so far
    input,      \* the arguments the caller passes to compile
    arrays,     \* the arrays of ExecutionResult on the heap, by reference
    executionHistory, \* PromptExecutor.executionHistory: reference of an array
    executions, \* the calls of PromptExecutor.execute made so far
    held        \* the references getExecutionHistory returned to the caller

coreVars == <<world, cache, calls, loadCount, cleared, input>>
executorVars == <<arrays, executionHistory, executions, held>>
vars == <<coreVars, executorVars>>

(***************************************************************************)
(* Bounds of the model.                                                    *)
(***************************************************************************)
MaxCalls == 2
MaxDepth == 3
MaxClears == 1
MaxCompiles == 1
MaxLines == 2
MaxDecls == 2
MaxTextLines == 4

(***************************************************************************)
(* Paths.                                                                  *)
(***************************************************************************)
Abs(segs, ext) == [kind |-> "abs", segs |-> segs, ext |-> ext]
Rel(segs, ext) == [kind |-> "rel", segs |-> segs, ext |-> ext]
Url(segs, ext) == [kind |-> "url", segs |-> segs, ext |-> ext]
NoPath == [kind |-> "none", segs |-> <<>>, ext |-> ""]

Cwd == <<"cwd">>

Front(s) == SubSeq(s, 1, Len(s) - 1)

\* path.dirname
dirname(p) ==
    IF p.segs = <<>> THEN [p EXCEPT !.ext = ""]
    ELSE [p EXCEPT !.segs = Front(p.segs), !.ext = ""]

\* path.resolve(dir, rel) for a directory dir
resolve(dir, p) ==
    IF p.kind = "abs" THEN p
    ELSE IF dir.kind = "abs" THEN Abs(dir.segs \o p.segs, p.ext)
    ELSE Abs(Cwd \o dir.segs \o p.segs, p.ext)

isURL(p) == p.kind = "url"

isAbsolutePath(p) == p.kind = "abs"

\* the variant of resolveImportPath without the test for URLs
resolveImportPathNoURL(importPath, basePath) ==
    IF basePath.kind # "none" /\ ~isAbsolutePath(importPath)
    THEN resolve(dirname(basePath), importPath)
    ELSE importPath

resolveImportPath(importPath, basePath) ==
    IF isURL(importPath) THEN importPath
    ELSE IF basePath.kind # "none" /\ ~isAbsolutePath(importPath)
         THEN resolve(dirname(basePath), importPath)
         ELSE importPath

\* String.prototype.endsWith on the extension of the path
endsWith(p, suffix) ==
    \/ p.ext = suffix
    \/ p.ext = ".lib.yml" /\ suffix = ".yml"

(***************************************************************************)
(* Maps (JavaScript objects used as dictionaries).                         *)
(***************************************************************************)
EmptyMap == <<>>

Put(m, k, v) == [x \in DOMAIN m \cup {k} |-> IF x = k THEN v ELSE m[x]]

\* Object.assign(target, source)
Assign(target, source) ==
    [x \in DOMAIN target \cup DOMAIN source |->
        IF x \in DOMAIN source THEN source[x] ELSE target[x]]

(***************************************************************************)
(* Template text, components, libraries, assemblies.                       *)
(***************************************************************************)
\* A text is a sequence of characters; a template text is a sequence of
\* items: literal text, {{ alias.component }}, {{ name }}, and
\* {% include "alias.component" %} ({% include "alias" %} when c = "").
NoText == <<>>
Lit(text) == [k |-> "lit", a |-> "", c |-> "", s |-> text]
Ref(a, c) == [k |-> "ref", a |-> a, c |-> c, s |-> NoText]
Var(n) == [k |-> "var", a |-> n, c |-> "", s |-> NoText]
Inc(a, c) == [k |-> "inc", a |-> a, c |-> c, s |-> NoText]

NL == "\n"

Component(name, content) == [name |-> name, content |-> content]

Library(id, components) == [library_id |-> id, components |-> components]

Import(alias, path) == [alias |-> alias, path |-> path]

Assembly(id, imports, variables, composition) ==
    [id |-> id, imports |-> imports, variables |-> variables,
     composition |-> composition]

NoAssembly == Assembly("", <<>>, <<>>, <<>>)

\* composition.join('\n'): the items of the lines, a newline between lines
RECURSIVE Join(_)
Join(composition) ==
    IF composition = <<>> THEN <<>>
    ELSE IF Len(composition) = 1 THEN composition[1]
    ELSE composition[1] \o <<Lit(<<NL>>)>> \o Join(Tail(composition))

\* the variant of createLibraryFromAssembly whose component holds the first
\* line of the composition
createLibraryFromFirstLine(assembly) ==
    Library(assembly.id,
            <<Component("prompt", assembly.composition[1])>>)

\* l.195-214
createLibraryFromAssembly(assembly) ==
    Library(assembly.id,
            <<Component("prompt", Join(assembly.composition))>>)

(***************************************************************************)
(* The files of the model and the worlds built from them.                  *)
(***************************************************************************)
FileA == Abs(<<"d", "a">>, ".pal")
FileB == Abs(<<"d", "b">>, ".yml")
FileL == Abs(<<"d", "l">>, ".pal.lib")
FileM == Abs(<<"d", "m">>, ".lib.yml")
FileN == Abs(<<"d", "n">>, ".pal.lib")   \* no such file
FileX == Abs(<<"d", "x">>, ".txt")
FileR == Abs(<<"d", "r">>, ".pal")       \* the place of a compiled assembly
RelR == Rel(<<"s", "r">>, ".pal")        \* "s/r.pal"
UrlL == Url(<<"h", "l">>, ".pal.lib")    \* "https://h/l.pal.lib"
RelL == Rel(<<"l">>, ".pal.lib")          \* "l.pal.lib"

LibL == Library("l", <<Component("helpful", <<Lit(<<"H">>)>>),
                       Component("brief", <<Lit(<<"B">>)>>)>>)
LibM == Library("m", <<Component("formal", <<Lit(<<"F">>)>>),
                       Component("__proto__", <<Lit(<<"P">>)>>)>>)
SeedLib == Library("seed", <<Component("helpful", <<Lit(<<"S">>)>>)>>)

Aliases == {"p", "q"}
ImportTargets == {FileA, FileB, FileL, FileM, FileN, FileX, RelL}

\* the import mappings of at most n entries, in declaration order
ImportSeqs(n) ==
    {<<>>} \cup
    (IF n >= 1 THEN {<<Import(a, t)>> : a \in Aliases, t \in ImportTargets}
     ELSE {}) \cup
    (IF n >= 2
     THEN {<<Import(a, t), Import(b, u)>> :
              a \in Aliases, t \in ImportTargets,
              b \in Aliases, u \in ImportTargets} \ 
          {s \in {<<Import(a, t), Import(b, u)>> :
                     a \in Aliases, t \in ImportTargets,
                     b \in Aliases, u \in ImportTargets} :
              s[1].alias = s[2].alias}
     ELSE {})

FileLib(lib) == [t |-> "lib", v |-> lib]
FileAsm(asm) == [t |-> "asm", v |-> asm]

\* the files the Loader reads in world w: path -> library or assembly
Files(w) ==
    (FileA :> FileAsm(Assembly("a", w.a, <<>>, <<<<Lit(<<"a">>)>>>>))) @@
    (FileB :> FileAsm(Assembly("b", w.b, <<>>,
                               <<<<Lit(<<"b">>)>>, <<Lit(<<"c">>)>>>>))) @@
    (FileL :> FileLib(LibL)) @@
    (FileM :> FileLib(LibM))

Worlds == {[a |-> ia, b |-> ib] : ia \in ImportSeqs(2), ib \in ImportSeqs(1)}

(***************************************************************************)
(* The Loader collaborator (core/loader.ts).                               *)
(***************************************************************************)
LoadOk(v) == [ok |-> TRUE, v |-> v, err |-> "none"]
LoadFail(e) == [ok |-> FALSE, v |-> NoAssembly, err |-> e]

loadComponentLibrary(w, path) ==
    IF path \notin DOMAIN Files(w) THEN LoadFail("PALLoadError")
    ELSE IF Files(w)[path].t # "lib" THEN LoadFail("PALValidationError")
    ELSE LoadOk(Files(w)[path].v)

loadPromptAssembly(w, path) ==
    IF path \notin DOMAIN Files(w) THEN LoadFail("PALLoadError")
    ELSE IF Files(w)[path].t # "asm" THEN LoadFail("PALValidationError")
    ELSE LoadOk(Files(w)[path].v)

(***************************************************************************)
(* Errors.                                                                 *)
(***************************************************************************)
Error(type, path, alias, cause) ==
    [type |-> type, path |-> path, alias |-> alias, cause |-> cause]

NoError == Error("none", NoPath, "", "")

\* resolver.ts l.123: { path, visitedPaths }
CircularError(path) == Error("PALCircularDependencyError", path, "", "")

\* resolver.ts l.158: { path }
UnsupportedError(path) == Error("PALResolverError", path, "", "unsupported")

\* a failure of the Loader: PALLoadError, PALValidationError
LoaderError(type, path) == Error(type, path, "", "")

ResultOk(map) == [ok |-> TRUE, map |-> map, err |-> NoError]
ResultErr(e) == [ok |-> FALSE, map |-> EmptyMap, err |-> e]
NoResult == [ok |-> FALSE, map |-> EmptyMap, err |-> NoError]

(***************************************************************************)
(* One level of a resolution: a resolveDependencies activation together    *)
(* with the loadDependencyRecursive activation it is awaiting.             *)
(*   pc = "loop"        between two imports of the for loop (l.54)         *)
(*   pc = "awaitLoad"   awaiting the Loader (l.141, l.144)                 *)
(*   pc = "awaitNested" awaiting the nested resolveDependencies (l.147)    *)
(***************************************************************************)
Level(asm, base) ==
    [asm |-> asm, base |-> base, i |-> 1, resolved |-> EmptyMap,
     visited |-> {}, pc |-> "loop", nested |-> NoAssembly]

CurAlias(lv) == lv.asm.imports[lv.i].alias
CurPath(lv) == resolveImportPath(lv.asm.imports[lv.i].path, lv.base)

isLibraryPath(path) == endsWith(path, ".pal.lib") \/ endsWith(path, ".lib.yml")
isAssemblyPath(path) == endsWith(path, ".pal") \/ endsWith(path, ".yml")

\* which Loader method loadDependencyRecursive calls for the path (l.140-159)
loaderKind(path) ==
    IF isLibraryPath(path) THEN "lib"
    ELSE IF isAssemblyPath(path) THEN "asm"
    ELSE "unsupported"

\* the variant of catchClause that rethrows whatever it caught
catchClauseRethrow(lv, e) == e

\* the catch clause of loadDependencyRecursive (l.164-171)
catchClause(lv, e) ==
    IF e.type = "PALCircularDependencyError" THEN e
    ELSE Error("PALResolverError", CurPath(lv), CurAlias(lv), e.type)

\* the variant of release that leaves the set as it is
releaseNothing(visited, path) == visited

\* the finally clause of loadDependencyRecursive (l.172-174)
release(visited, path) == visited \ {path}

\* visitedPaths of the outermost activation when an error thrown inside the
\* try blocks of the levels 1..k has left the call: the finally clause of
\* level 1 has run when k >= 1
unwound(stack, k) ==
    IF k >= 1 THEN release(stack[1].visited, CurPath(stack[1]))
    ELSE stack[1].visited

\* the error that leaves the outermost call when e is thrown inside the try
\* block of level k: every enclosing level awaits inside its own try block
RECURSIVE propagate(_, _, _)
propagate(stack, k, e) ==
    IF k = 0 THEN e ELSE propagate(stack, k - 1, catchClause(stack[k], e))

Count(p) == IF p \in DOMAIN loadCount THEN loadCount[p] ELSE 0

(***************************************************************************)
(* ResolverCache.                                                          *)
(***************************************************************************)
cacheHasNever(key) == FALSE

cacheHas(key) == key \in DOMAIN cache

\* the variant of cacheGet that returns one library whatever the key
cacheGetSeed(key) == SeedLib

cacheGet(key) == cache[key]

\* the variant of cacheSet that stores nothing
cacheSetDropped(key, library) == cache

cacheSet(key, library) == Put(cache, key, library)

\* the variant of cacheWhenThrown in which the path of the failed load is
\* stored with a placeholder
cacheWhenThrownStored(path) == Put(cache, path, SeedLib)

\* the cache when the try block of loadDependencyRecursive throws for a
\* path: cache.set (l.162) is not reached and the catch and finally clauses
\* (l.164-174) do not touch the cache
cacheWhenThrown(path) == cache

(***************************************************************************)
(* Calls.                                                                  *)
(***************************************************************************)
\* what compile throws: the error and the parts of its context
CompileError(type) ==
    [type |-> type, resolver |-> NoError, errors |-> <<>>,
     missingVariables |-> <<>>, variable |-> "", expectedType |-> "",
     actualType |-> "", cause |-> "", promptId |-> "", composition |-> NoText]

NoCompileError == CompileError("none")

Outcome(ok, text, err) == [ok |-> ok, text |-> text, err |-> err]

NoOutcome == Outcome(FALSE, <<>>, NoCompileError)

\* A call of resolveDependencies (kind "resolve") or of compile (kind
\* "compile"): status is "resolving" while resolveDependencies runs, then
\* for compile the stage it is about to run, and "done" when it has settled;
\* visited is the visitedPaths of the outermost resolveDependencies as it was
\* when that returned or threw.
Call(kind, asm, base, variables) ==
    [kind |-> kind, asm |-> asm, base |-> base, vars |-> variables,
     stack |-> <<Level(asm, base)>>, status |-> "resolving",
     result |-> NoResult, ran |-> <<>>, typed |-> EmptyMap, out |-> NoOutcome,
     visited |-> {}]

Running(c) == calls[c].status # "done"

\* the variant of settle in which a failed import is skipped and the for
\* loop goes on
settleSkipFailed(cl, r) ==
    IF ~r.ok
    THEN [cl EXCEPT !.stack = <<[cl.stack[1] EXCEPT !.i = @ + 1, !.pc = "loop",
                                                   !.visited = {},
                                                   !.nested = NoAssembly]>>]
    ELSE IF cl.kind = "resolve"
    THEN [cl EXCEPT !.stack = <<>>, !.status = "done", !.result = r]
    ELSE [cl EXCEPT !.stack = <<>>, !.status = "validate", !.result = r,
                    !.ran = <<"resolve">>]

\* the call when its resolveDependencies has settled with result r; compile
\* goes on to validateReferences, or rejects with the resolver's error
\* (compiler.ts l.151-154)
settle(cl, r) ==
    IF cl.kind = "resolve"
    THEN [cl EXCEPT !.stack = <<>>, !.status = "done", !.result = r]
    ELSE IF r.ok
    THEN [cl EXCEPT !.stack = <<>>, !.status = "validate", !.result = r,
                    !.ran = <<"resolve">>]
    ELSE [cl EXCEPT !.stack = <<>>, !.status = "done", !.result = r,
                    !.ran = <<"resolve">>,
                    !.out = Outcome(FALSE, NoText,
                               [CompileError(r.err.type) EXCEPT !.resolver = r.err])]

Top(cl) == cl.stack[Len(cl.stack)]

SetTop(cl, lv) == [cl EXCEPT !.stack[Len(cl.stack)] = lv]

\* the caller loads an assembly file and passes its path as basePath
Roots(w) == {[asm |-> Files(w)[f].v, base |-> f] : f \in {FileA, FileB}}

\* resolver.resolveDependencies(assembly, basePath) is called (l.47-52)
StartResolve ==
    /\ Len(calls) < MaxCalls
    /\ \A c \in DOMAIN calls : ~Running(c)
    /\ \E r \in Roots(world) :
          calls' = Append(calls, Call("resolve", r.asm, r.base, <<>>))
    /\ UNCHANGED <<world, cache, loadCount, cleared, input, executorVars>>

\* the for loop takes its next import and loadDependencyRecursive runs up
\* to its first await, its return or its throw (l.54-61, l.115-144)
NextImport(c) ==
    LET cl == calls[c]
        n == Len(cl.stack)
        lv == Top(cl)
        alias == CurAlias(lv)
        path == CurPath(lv)
    IN  /\ cl.status = "resolving"
        /\ lv.pc = "loop"
        /\ lv.i <= Len(lv.asm.imports)
        /\ IF path \in lv.visited
           THEN /\ calls' = [calls EXCEPT ![c] =
                     [settle(cl, ResultErr(propagate(cl.stack, n - 1,
                                                     CircularError(path))))
                        EXCEPT !.visited = unwound(cl.stack, n - 1)]]
                /\ UNCHANGED <<cache, loadCount>>
           ELSE IF cacheHas(path)
           THEN /\ calls' = [calls EXCEPT ![c] = SetTop(cl,
                     [lv EXCEPT !.resolved = Put(lv.resolved, alias, cacheGet(path)),
                                !.i = lv.i + 1])]
                /\ UNCHANGED <<cache, loadCount>>
           ELSE IF loaderKind(path) = "unsupported"
           THEN /\ calls' = [calls EXCEPT ![c] =
                     [settle(cl, ResultErr(propagate(cl.stack, n,
                                                     UnsupportedError(path))))
                        EXCEPT !.visited = unwound(cl.stack, n)]]
                /\ cache' = cacheWhenThrown(path)
                /\ UNCHANGED loadCount
           ELSE /\ calls' = [calls EXCEPT ![c] = SetTop(cl,
                     [lv EXCEPT !.visited = lv.visited \cup {path},
                                !.pc = "awaitLoad"])]
                /\ loadCount' = Put(loadCount, path, Count(path) + 1)
                /\ UNCHANGED cache
        /\ UNCHANGED <<world, cleared, input, executorVars>>

\* the Loader's promise settles and loadDependencyRecursive goes on
\* (l.141, l.144-150, l.161-174)
LoaderSettles(c) ==
    LET cl == calls[c]
        n == Len(cl.stack)
        lv == Top(cl)
        alias == CurAlias(lv)
        path == CurPath(lv)
        r == IF loaderKind(path) = "lib"
             THEN loadComponentLibrary(world, path)
             ELSE loadPromptAssembly(world, path)
    IN  /\ cl.status = "resolving"
        /\ lv.pc = "awaitLoad"
        /\ IF ~r.ok
           THEN /\ calls' = [calls EXCEPT ![c] =
                     [settle(cl, ResultErr(propagate(cl.stack, n,
                                                     LoaderError(r.err, path))))
                        EXCEPT !.visited = unwound(cl.stack, n)]]
                /\ cache' = cacheWhenThrown(path)
           ELSE IF loaderKind(path) = "lib"
           THEN /\ cache' = cacheSet(path, r.v)
                /\ calls' = [calls EXCEPT ![c] = SetTop(cl,
                     [lv EXCEPT !.resolved = Put(lv.resolved, alias, r.v),
                                !.visited = release(lv.visited, path),
                                !.i = lv.i + 1,
                                !.pc = "loop"])]
           ELSE /\ n < MaxDepth
                /\ calls' = [calls EXCEPT ![c] =
                     [cl EXCEPT !.stack =
                        Append([cl.stack EXCEPT ![n] =
                                   [lv EXCEPT !.pc = "awaitNested",
                                              !.nested = r.v]],
                               Level(r.v, dirname(path)))]]
                /\ UNCHANGED cache
        /\ UNCHANGED <<world, loadCount, cleared, input, executorVars>>

\* the for loop is over and resolveDependencies returns its map (l.64); a
\* nested call returns into the loadDependencyRecursive that awaits it
\* (l.152-163, l.172-174)
ReturnResolved(c) ==
    LET cl == calls[c]
        n == Len(cl.stack)
        lv == Top(cl)
    IN  /\ cl.status = "resolving"
        /\ lv.pc = "loop"
        /\ lv.i > Len(lv.asm.imports)
        /\ IF n = 1
           THEN /\ calls' = [calls EXCEPT ![c] =
                     [settle(cl, ResultOk(lv.resolved))
                        EXCEPT !.visited = lv.visited]]
                /\ UNCHANGED cache
           ELSE LET up == cl.stack[n - 1]
                    library == createLibraryFromAssembly(up.nested)
                IN  /\ cache' = cacheSet(CurPath(up), library)
                    /\ calls' = [calls EXCEPT ![c] =
                         [cl EXCEPT !.stack =
                            [Front(cl.stack) EXCEPT ![n - 1] =
                               [up EXCEPT
                                  !.resolved = Put(Assign(up.resolved, lv.resolved),
                                                   CurAlias(up), library),
                                  !.visited = release(up.visited, CurPath(up)),
                                  !.i = up.i + 1,
                                  !.pc = "loop",
                                  !.nested = NoAssembly]]]]
        /\ UNCHANGED <<world, loadCount, cleared, input, executorVars>>

\* cache.set(key, library) by the owner of the cache, before any call
CacheSet ==
    /\ calls = <<>>
    /\ cache = EmptyMap
    /\ cache' = cacheSet(FileL, SeedLib)
    /\ UNCHANGED <<world, calls, loadCount, cleared, input, executorVars>>

\* cache.clear() by the owner of the cache
CacheClear ==
    /\ cleared < MaxClears
    /\ cache # EmptyMap
    /\ cache' = EmptyMap
    /\ cleared' = cleared + 1
    /\ UNCHANGED <<world, calls, loadCount, input, executorVars>>

NoInput == [asm |-> NoAssembly, base |-> NoPath, vars |-> <<>>,
            engine |-> "nunjucks"]

\* executor.ts l.291: executionHistory: ExecutionResult[] = []; no call of
\* execute has been made and the caller holds no array
InitExecutor ==
    /\ arrays = << <<>> >>
    /\ executionHistory = 1
    /\ executions = <<>>
    /\ held = <<>>

Init ==
    /\ InitExecutor
    /\ world \in Worlds
    /\ cache = EmptyMap
    /\ calls = <<>>
    /\ loadCount = EmptyMap
    /\ cleared = 0
    /\ input = NoInput

Next ==
    \/ StartResolve
    \/ \E c \in DOMAIN calls : NextImport(c)
    \/ \E c \in DOMAIN calls : LoaderSettles(c)
    \/ \E c \in DOMAIN calls : ReturnResolved(c)
    \/ CacheSet
    \/ CacheClear

Spec == Init /\ [][Next]_vars

(***************************************************************************)
(* JavaScript values.  A number is held in tenths (420 is 42, 35 is 3.5).  *)
(***************************************************************************)
Val(t, b, n, s) == [t |-> t, b |-> b, n |-> n, s |-> s]

Undefined == Val("undefined", FALSE, 0, NoText)
Null == Val("null", FALSE, 0, NoText)
NaN == Val("nan", FALSE, 0, NoText)
Bool(b) == Val("boolean", b, 0, NoText)
Num(n) == Val("number", FALSE, n, NoText)
Str(s) == Val("string", FALSE, 0, s)
EmptyArray == Val("array", FALSE, 0, NoText)
EmptyObject == Val("object", FALSE, 0, NoText)

typeof(v) ==
    CASE v.t = "undefined" -> "undefined"
      [] v.t = "boolean" -> "boolean"
      [] v.t \in {"number", "nan"} -> "number"
      [] v.t = "string" -> "string"
      [] OTHER -> "object"

\* the property names every object literal inherits from Object.prototype
ObjectPrototypeKeys == {"constructor", "toString", "__proto__"}

\* name in obj
In(name, obj) == name \in DOMAIN obj \/ name \in ObjectPrototypeKeys

\* obj[name] = value on an object literal: the inherited setter of __proto__
\* takes the assignment, and does nothing with a value that is no object
SetProp(obj, name, value) ==
    IF name = "__proto__" /\ value.t \notin {"object", "array", "null"}
    THEN obj
    ELSE Put(obj, name, value)

\* obj[name]: an own property, a property inherited from Object.prototype
\* (a function, which is truthy and has no components), or undefined
GetProp(obj, name) ==
    IF name \in DOMAIN obj THEN "own"
    ELSE IF name \in ObjectPrototypeKeys THEN "inherited"
    ELSE "undefined"

(***************************************************************************)
(* Resolver.validateReferences.                                            *)
(***************************************************************************)
UnknownAlias(alias) ==
    [kind |-> "unknownAlias", alias |-> alias, component |-> "",
     available |-> <<>>]

NotFound(component, alias, available) ==
    [kind |-> "notFound", alias |-> alias, component |-> component,
     available |-> available]

\* library.components.map((c) => c.name)
ComponentNames(library) ==
    [i \in DOMAIN library.components |-> library.components[i].name]

\* library.components.find((c) => c.name === componentName)
HasComponent(library, name) ==
    \E i \in DOMAIN library.components : library.components[i].name = name

FindComponent(library, name) ==
    library.components[CHOOSE i \in DOMAIN library.components :
        /\ library.components[i].name = name
        /\ \A j \in 1..(i - 1) : library.components[j].name # name]

Validation(threw, errors) == [threw |-> threw, errors |-> errors]

\* the while loop over the matches of componentRegex, from item i on
RECURSIVE validateFrom(_, _, _, _)
validateFrom(text, i, resolvedLibraries, errors) ==
    IF i > Len(text) THEN Validation(FALSE, errors)
    ELSE IF text[i].k # "ref"
    THEN validateFrom(text, i + 1, resolvedLibraries, errors)
    ELSE LET alias == text[i].a
             componentName == text[i].c
             got == GetProp(resolvedLibraries, alias)
         IN  IF got = "undefined"
             THEN validateFrom(text, i + 1, resolvedLibraries,
                               Append(errors, UnknownAlias(alias)))
             ELSE IF got = "inherited"
             THEN Validation(TRUE, errors)
             ELSE IF HasComponent(resolvedLibraries[alias], componentName)
             THEN validateFrom(text, i + 1, resolvedLibraries, errors)
             ELSE validateFrom(text, i + 1, resolvedLibraries,
                     Append(errors,
                            NotFound(componentName, alias,
                                     ComponentNames(resolvedLibraries[alias]))))

validateReferences(promptAssembly, resolvedLibraries) ==
    validateFrom(Join(promptAssembly.composition), 1, resolvedLibraries, <<>>)

(***************************************************************************)
(* ComponentTemplateLoader.getSource.                                      *)
(***************************************************************************)
Source(ok, src, err) == [ok |-> ok, src |-> src, err |-> err]

getSource(resolvedLibraries, alias, componentName) ==
    IF componentName = "" THEN Source(FALSE, <<>>, "format")
    ELSE IF GetProp(resolvedLibraries, alias) = "undefined"
    THEN Source(FALSE, <<>>, "unknownAlias")
    ELSE IF GetProp(resolvedLibraries, alias) = "inherited"
    THEN Source(FALSE, <<>>, "TypeError")
    ELSE IF ~HasComponent(resolvedLibraries[alias], componentName)
    THEN Source(FALSE, <<>>, "notFound")
    ELSE Source(TRUE, FindComponent(resolvedLibraries[alias], componentName).content,
                "none")

(***************************************************************************)
(* Variables: PromptCompiler.checkMissingVariables, typeCheckVariables,    *)
(* addDefaultVariables, convertVariable.                                   *)
(***************************************************************************)
VarDef(name, type, required, default) ==
    [name |-> name, type |-> type, required |-> required, default |-> default]

Entry(name, value) == [name |-> name, value |-> value]

\* the object whose entries, in insertion order, are the sequence es
ObjectOf(es) ==
    [n \in {es[i].name : i \in DOMAIN es} |->
        es[CHOOSE i \in DOMAIN es :
              es[i].name = n /\ \A j \in (i + 1)..Len(es) : es[j].name # n].value]

RECURSIVE missingFrom(_, _, _)
missingFrom(defs, i, providedVars) ==
    IF i > Len(defs) THEN <<>>
    ELSE (IF /\ defs[i].required
             /\ ~In(defs[i].name, providedVars)
             /\ defs[i].default.t = "undefined"
          THEN <<defs[i].name>> ELSE <<>>)
         \o missingFrom(defs, i + 1, providedVars)

checkMissingVariables(promptAssembly, providedVars) ==
    missingFrom(promptAssembly.variables, 1, providedVars)

(***************************************************************************)
(* Texts: String.prototype.trim, toLowerCase, Number(string), String(x).   *)
(* The strings of the model hold no exponent, hexadecimal or Infinity      *)
(* notation and at most one fractional digit.                              *)
(***************************************************************************)
IsWhitespace(ch) == ch \in {" ", "\n", "\t"}

RECURSIVE TrimStart(_)
TrimStart(s) ==
    IF s # <<>> /\ IsWhitespace(Head(s)) THEN TrimStart(Tail(s)) ELSE s

RECURSIVE TrimEnd(_)
TrimEnd(s) ==
    IF s # <<>> /\ IsWhitespace(s[Len(s)]) THEN TrimEnd(Front(s)) ELSE s

Trim(s) == TrimEnd(TrimStart(s))

UpperCase == <<"A", "B", "C", "D", "E", "F", "G", "H", "I", "J", "K", "L", "M",
               "N", "O", "P", "Q", "R", "S", "T", "U", "V", "W", "X", "Y", "Z">>
LowerCase == <<"a", "b", "c", "d", "e", "f", "g", "h", "i", "j", "k", "l", "m",
               "n", "o", "p", "q", "r", "s", "t", "u", "v", "w", "x", "y", "z">>

LowerChar(ch) ==
    IF \E i \in DOMAIN UpperCase : UpperCase[i] = ch
    THEN LowerCase[CHOOSE i \in DOMAIN UpperCase : UpperCase[i] = ch]
    ELSE ch

toLowerCase(s) == [i \in DOMAIN s |-> LowerChar(s[i])]

Digits == <<"0", "1", "2", "3", "4", "5", "6", "7", "8", "9">>

IsDigit(ch) == \E i \in DOMAIN Digits : Digits[i] = ch

DigitValue(ch) == (CHOOSE i \in DOMAIN Digits : Digits[i] = ch) - 1

AllDigits(s) == \A i \in DOMAIN s : IsDigit(s[i])

RECURSIVE DigitsValue(_)
DigitsValue(s) ==
    IF s = <<>> THEN 0 ELSE 10 * DigitsValue(Front(s)) + DigitValue(s[Len(s)])

\* an unsigned decimal literal, in tenths, or -1 when s is not one
UnsignedTenths(s) ==
    IF s # <<>> /\ AllDigits(s) THEN 10 * DigitsValue(s)
    ELSE IF /\ Len(s) >= 2
            /\ s[Len(s) - 1] = "."
            /\ AllDigits(SubSeq(s, 1, Len(s) - 2))
            /\ IsDigit(s[Len(s)])
         THEN 10 * DigitsValue(SubSeq(s, 1, Len(s) - 2)) + DigitValue(s[Len(s)])
         ELSE -1

\* Number(s) for a string s
StringToNumber(s) ==
    LET t == Trim(s)
    IN  IF t = <<>> THEN Num(0)
        ELSE IF Head(t) = "-" /\ UnsignedTenths(Tail(t)) >= 0
        THEN Num(0 - UnsignedTenths(Tail(t)))
        ELSE IF Head(t) = "+" /\ UnsignedTenths(Tail(t)) >= 0
        THEN Num(UnsignedTenths(Tail(t)))
        ELSE IF UnsignedTenths(t) >= 0 THEN Num(UnsignedTenths(t))
        ELSE NaN

\* Number(value)
ToNumber(v) ==
    CASE v.t = "string" -> StringToNumber(v.s)
      [] v.t \in {"number", "nan"} -> v
      [] v.t = "boolean" -> Num(IF v.b THEN 10 ELSE 0)
      [] v.t = "null" -> Num(0)
      [] v.t = "array" -> Num(0)
      [] OTHER -> NaN

RECURSIVE NatToText(_)
NatToText(n) ==
    IF n < 10 THEN <<Digits[n + 1]>>
    ELSE NatToText(n \div 10) \o <<Digits[(n % 10) + 1]>>

UnsignedTenthsToText(n) ==
    IF n % 10 = 0 THEN NatToText(n \div 10)
    ELSE NatToText(n \div 10) \o <<".", Digits[(n % 10) + 1]>>

TenthsToText(n) ==
    IF n < 0 THEN <<"-">> \o UnsignedTenthsToText(0 - n)
    ELSE UnsignedTenthsToText(n)

\* String(value)
ToText(v) ==
    CASE v.t = "string" -> v.s
      [] v.t = "number" -> TenthsToText(v.n)
      [] v.t = "nan" -> <<"N", "a", "N">>
      [] v.t = "boolean" -> IF v.b THEN <<"t", "r", "u", "e">>
                            ELSE <<"f", "a", "l", "s", "e">>
      [] v.t = "null" -> <<"n", "u", "l", "l">>
      [] v.t = "undefined" -> <<"u", "n", "d", "e", "f", "i", "n", "e", "d">>
      [] v.t = "array" -> NoText
      [] OTHER -> <<"[", "o", "b", "j", "e", "c", "t", " ",
                    "O", "b", "j", "e", "c", "t", "]">>

\* Boolean(value)
ToBoolean(v) ==
    CASE v.t = "boolean" -> v.b
      [] v.t = "number" -> v.n # 0
      [] v.t = "string" -> v.s # NoText
      [] v.t \in {"array", "object"} -> TRUE
      [] OTHER -> FALSE

(***************************************************************************)
(* PromptCompiler.convertVariable and the conversions it dispatches to.    *)
(***************************************************************************)
Converted(v) == [ok |-> TRUE, v |-> v]
ConvertError == [ok |-> FALSE, v |-> Undefined]

\* the variant of convertToInt without the test for booleans
convertToIntOfBoolean(value) ==
    LET num == ToNumber(value)
    IN  IF num.t = "number" /\ num.n % 10 = 0 THEN Converted(num)
        ELSE ConvertError

convertToInt(value) ==
    IF value.t = "boolean" THEN ConvertError
    ELSE LET num == ToNumber(value)
         IN  IF num.t = "number" /\ num.n % 10 = 0 THEN Converted(num)
             ELSE ConvertError

convertToFloat(value) ==
    IF value.t = "boolean" THEN ConvertError
    ELSE LET num == ToNumber(value)
         IN  IF num.t = "nan" THEN ConvertError ELSE Converted(num)

TrueWords == {<<"t", "r", "u", "e">>, <<"1">>, <<"y", "e", "s">>, <<"o", "n">>}
FalseWords == {<<"f", "a", "l", "s", "e">>, <<"0">>, <<"n", "o">>, <<"o", "f", "f">>}

convertToBool(value) ==
    IF value.t = "string"
    THEN IF toLowerCase(value.s) \in TrueWords THEN Converted(Bool(TRUE))
         ELSE IF toLowerCase(value.s) \in FalseWords THEN Converted(Bool(FALSE))
         ELSE ConvertError
    ELSE Converted(Bool(ToBoolean(value)))

convertToList(value) ==
    IF value.t # "array" THEN ConvertError ELSE Converted(value)

convertToDict(value) ==
    IF typeof(value) # "object" \/ value.t = "null" \/ value.t = "array"
    THEN ConvertError
    ELSE Converted(value)

convertVariable(value, varType) ==
    CASE varType = "any" -> Converted(value)
      [] varType = "string" -> Converted(Str(ToText(value)))
      [] varType = "integer" -> convertToInt(value)
      [] varType = "float" -> convertToFloat(value)
      [] varType = "boolean" -> convertToBool(value)
      [] varType = "list" -> convertToList(value)
      [] varType = "dict" -> convertToDict(value)
      [] OTHER -> ConvertError

\* defaultValues of addDefaultVariables
defaultValues(type) ==
    CASE type = "string" -> Str(NoText)
      [] type = "list" -> EmptyArray
      [] type = "dict" -> EmptyObject
      [] type = "boolean" -> Bool(FALSE)
      [] type = "integer" -> Num(0)
      [] type = "float" -> Num(0)
      [] type = "any" -> Null
      [] OTHER -> Undefined

RECURSIVE addDefaultVariables(_, _, _)
addDefaultVariables(varDefinitions, i, typedVars) ==
    IF i > Len(varDefinitions) THEN typedVars
    ELSE LET varDef == varDefinitions[i]
         IN  addDefaultVariables(varDefinitions, i + 1,
                IF In(varDef.name, typedVars) THEN typedVars
                ELSE IF varDef.default.t # "undefined"
                THEN SetProp(typedVars, varDef.name, varDef.default)
                ELSE IF ~varDef.required
                THEN SetProp(typedVars, varDef.name, defaultValues(varDef.type))
                ELSE typedVars)

HasVarDef(defs, name) == \E i \in DOMAIN defs : defs[i].name = name

\* varDefs.get(name): new Map(...) keeps the last definition of a name
GetVarDef(defs, name) ==
    defs[CHOOSE i \in DOMAIN defs :
            defs[i].name = name /\ \A j \in (i + 1)..Len(defs) : defs[j].name # name]

TypeError(variable, expectedType, actualType) ==
    [variable |-> variable, expectedType |-> expectedType,
     actualType |-> actualType]

Typed(ok, typedVars, err) == [ok |-> ok, typedVars |-> typedVars, err |-> err]

\* the loop over Object.entries(variables), from entry i on
RECURSIVE typeCheckFrom(_, _, _, _)
typeCheckFrom(defs, entries, i, typedVars) ==
    IF i > Len(entries)
    THEN Typed(TRUE, addDefaultVariables(defs, 1, typedVars), TypeError("", "", ""))
    ELSE LET name == entries[i].name
             value == entries[i].value
         IN  IF HasVarDef(defs, name)
             THEN LET r == convertVariable(value, GetVarDef(defs, name).type)
                  IN  IF r.ok
                      THEN typeCheckFrom(defs, entries, i + 1,
                                         SetProp(typedVars, name, r.v))
                      ELSE Typed(FALSE, EmptyMap,
                                 TypeError(name, GetVarDef(defs, name).type,
                                           typeof(value)))
             ELSE typeCheckFrom(defs, entries, i + 1,
                                SetProp(typedVars, name, value))

typeCheckVariables(promptAssembly, entries) ==
    typeCheckFrom(promptAssembly.variables, entries, 1, EmptyMap)

(***************************************************************************)
(* Rendering: PromptCompiler.buildTemplateContext, the nunjucks            *)
(* environment of createNunjucksEnvironment (throwOnUndefined, trimBlocks) *)
(* with the ComponentTemplateLoader, and cleanCompiledPrompt.              *)
(***************************************************************************)
MaxInclude == 2

CtxValue(v) == [dict |-> FALSE, v |-> v, d |-> EmptyMap]
CtxDict(d) == [dict |-> TRUE, v |-> Undefined, d |-> d]

\* componentDict[component.name] = component.content (l.431-433): the
\* inherited setter of __proto__ takes the assignment of that name, and does
\* nothing with a string
componentDict(library) ==
    [n \in {library.components[i].name : i \in DOMAIN library.components}
            \ {"__proto__"} |->
        library.components[CHOOSE i \in DOMAIN library.components :
            /\ library.components[i].name = n
            /\ \A j \in (i + 1)..Len(library.components) :
                  library.components[j].name # n].content]

buildTemplateContext(resolvedLibraries, variables) ==
    [n \in DOMAIN variables \cup DOMAIN resolvedLibraries |->
        IF n \in DOMAIN resolvedLibraries
        THEN CtxDict(componentDict(resolvedLibraries[n]))
        ELSE CtxValue(variables[n])]

\* a component's content written out as it is, template syntax unrendered
RECURSIVE Raw(_)
Raw(text) ==
    IF text = <<>> THEN NoText
    ELSE (IF Head(text).k = "lit" THEN Head(text).s ELSE <<"{..}">>)
         \o Raw(Tail(text))

\* trimBlocks: the newline that follows a block tag is dropped
trimBlocks(text) ==
    [i \in DOMAIN text |->
        IF /\ i > 1
           /\ text[i - 1].k = "inc"
           /\ text[i].k = "lit"
           /\ text[i].s # NoText
           /\ Head(text[i].s) = NL
        THEN Lit(Tail(text[i].s))
        ELSE text[i]]

Rendered(ok, out, err) == [ok |-> ok, out |-> out, err |-> err]

\* env.renderString from item i on; a look-up that yields undefined or null
\* throws (throwOnUndefined), an include asks the loader for its source
RECURSIVE renderFrom(_, _, _, _, _, _)
renderFrom(text, i, context, resolvedLibraries, fuel, out) ==
    IF i > Len(text) THEN Rendered(TRUE, out, "none")
    ELSE LET it == text[i]
             go(piece) == renderFrom(text, i + 1, context, resolvedLibraries,
                                     fuel, out \o piece)
             fail(e) == Rendered(FALSE, NoText, e)
         IN  CASE it.k = "lit" -> go(it.s)
               [] it.k = "var" ->
                    IF it.a \in DOMAIN context
                    THEN IF context[it.a].dict THEN go(ToText(EmptyObject))
                         ELSE IF context[it.a].v.t \in {"undefined", "null"}
                         THEN fail("undefinedOutput")
                         ELSE go(ToText(context[it.a].v))
                    ELSE IF it.a \in ObjectPrototypeKeys THEN go(<<"{fn}">>)
                    ELSE fail("undefinedOutput")
               [] it.k = "ref" ->
                    IF it.a \in DOMAIN context /\ context[it.a].dict
                    THEN IF it.c \in DOMAIN context[it.a].d
                         THEN go(Raw(context[it.a].d[it.c]))
                         ELSE IF it.c \in ObjectPrototypeKeys THEN go(<<"{fn}">>)
                         ELSE fail("undefinedOutput")
                    ELSE fail("undefinedOutput")
               [] OTHER ->
                    LET src == getSource(resolvedLibraries, it.a, it.c)
                    IN  IF ~src.ok THEN fail(src.err)
                        ELSE IF fuel = 0 THEN fail("recursion")
                        ELSE LET sub == renderFrom(trimBlocks(src.src), 1, context,
                                                   resolvedLibraries, fuel - 1,
                                                   NoText)
                             IN  IF sub.ok THEN go(sub.out) ELSE fail(sub.err)

renderString(text, context, resolvedLibraries) ==
    renderFrom(trimBlocks(text), 1, context, resolvedLibraries, MaxInclude, NoText)

AllWhitespace(s, a, b) == \A k \in a..b : IsWhitespace(s[k])

Max(S) == CHOOSE x \in S : \A y \in S : y <= x

\* \n+ at k, greedy: the last of the newlines that follow one another from k
RECURSIVE newlinesEnd(_, _)
newlinesEnd(s, k) ==
    IF k < Len(s) /\ s[k + 1] = NL THEN newlinesEnd(s, k + 1) ELSE k

\* \s*\n+ at j, \s* greedy: the position of the last character matched, or 0
restEnd(s, j) ==
    LET ms == {m \in (j - 1)..(Len(s) - 1) :
                  AllWhitespace(s, j, m) /\ s[m + 1] = NL}
    IN  IF ms = {} THEN 0 ELSE newlinesEnd(s, Max(ms) + 1)

\* /\n\s*\n\s*\n+/ at i, the first \s* greedy: the position of the last
\* character matched, or 0 when there is no match at i
matchEnd(s, i) ==
    IF s[i] # NL THEN 0
    ELSE LET ms == {m \in i..(Len(s) - 1) :
                       /\ AllWhitespace(s, i + 1, m)
                       /\ s[m + 1] = NL
                       /\ restEnd(s, m + 2) # 0}
         IN  IF ms = {} THEN 0 ELSE restEnd(s, Max(ms) + 2)

\* the variant of collapseFrom whose pattern is /\n\n\n+/g: whitespace
\* between the newlines breaks the match
RECURSIVE collapseNewlinesOnly(_, _)
collapseNewlinesOnly(s, i) ==
    IF i > Len(s) THEN NoText
    ELSE IF s[i] = NL /\ newlinesEnd(s, i) >= i + 2
    THEN <<NL, NL>> \o collapseNewlinesOnly(s, newlinesEnd(s, i) + 1)
    ELSE <<s[i]>> \o collapseNewlinesOnly(s, i + 1)

\* prompt.replace(/\n\s*\n\s*\n+/g, '\n\n') from position i on
RECURSIVE collapseFrom(_, _)
collapseFrom(s, i) ==
    IF i > Len(s) THEN NoText
    ELSE IF matchEnd(s, i) # 0
    THEN <<NL, NL>> \o collapseFrom(s, matchEnd(s, i) + 1)
    ELSE <<s[i]>> \o collapseFrom(s, i + 1)

\* the variant of cleanCompiledPrompt that does not trim
cleanWithoutTrim(prompt) == collapseFrom(prompt, 1)

cleanCompiledPrompt(prompt) == Trim(collapseFrom(prompt, 1))

(***************************************************************************)
(* PromptCompiler.compile.  It awaits resolveDependencies (the resolver    *)
(* actions above run it, on the compiler's own Resolver and cache) and     *)
(* then runs its stages one after the other; ran records the stages a call *)
(* has executed.                                                           *)
(***************************************************************************)
Stages == <<"resolve", "validate", "missing", "typecheck", "render">>

\* the call rejects: no prompt is returned
reject(cl, stage, err) ==
    [cl EXCEPT !.status = "done", !.ran = Append(cl.ran, stage),
               !.out = Outcome(FALSE, NoText, err)]

\* the call goes on to the stage next
advance(cl, stage, next) ==
    [cl EXCEPT !.status = next, !.ran = Append(cl.ran, stage)]

\* compile(promptAssembly, variables, basePath) is called
StartCompile ==
    /\ Len(calls) < MaxCompiles
    /\ \A c \in DOMAIN calls : ~Running(c)
    /\ calls' = Append(calls, Call("compile", input.asm, input.base, input.vars))
    /\ UNCHANGED <<world, cache, loadCount, cleared, input, executorVars>>

\* the variant of Validate whose error carries the first diagnostic only
ValidateFirstOnly(c) ==
    /\ calls[c].status = "validate"
    /\ LET cl == calls[c]
           validationErrors == validateReferences(cl.asm, cl.result.map)
       IN  calls' = [calls EXCEPT ![c] =
              IF validationErrors.threw
              THEN reject(cl, "validate", CompileError("TypeError"))
              ELSE IF Len(validationErrors.errors) > 0
              THEN reject(cl, "validate",
                          [CompileError("PALMissingComponentError")
                              EXCEPT !.errors = <<validationErrors.errors[1]>>])
              ELSE advance(cl, "validate", "missing")]
    /\ UNCHANGED <<world, cache, loadCount, cleared, input, executorVars>>

\* validateReferences and the throw of PALMissingComponentError; an error
\* validateReferences itself throws leaves compile as it is
Validate(c) ==
    /\ calls[c].status = "validate"
    /\ LET cl == calls[c]
           validationErrors == validateReferences(cl.asm, cl.result.map)
       IN  calls' = [calls EXCEPT ![c] =
              IF validationErrors.threw
              THEN reject(cl, "validate", CompileError("TypeError"))
              ELSE IF Len(validationErrors.errors) > 0
              THEN reject(cl, "validate",
                          [CompileError("PALMissingComponentError")
                              EXCEPT !.errors = validationErrors.errors])
              ELSE advance(cl, "validate", "missing")]
    /\ UNCHANGED <<world, cache, loadCount, cleared, input, executorVars>>

\* the variant of CheckMissing that never throws
CheckMissingNoThrow(c) ==
    /\ calls[c].status = "missing"
    /\ calls' = [calls EXCEPT ![c] = advance(calls[c], "missing", "typecheck")]
    /\ UNCHANGED <<world, cache, loadCount, cleared, input, executorVars>>

\* checkMissingVariables and the throw of PALMissingVariableError
CheckMissing(c) ==
    /\ calls[c].status = "missing"
    /\ LET cl == calls[c]
           missingVars == checkMissingVariables(cl.asm, ObjectOf(cl.vars))
       IN  calls' = [calls EXCEPT ![c] =
              IF Len(missingVars) > 0
              THEN reject(cl, "missing",
                          [CompileError("PALMissingVariableError")
                              EXCEPT !.missingVariables = missingVars])
              ELSE advance(cl, "missing", "typecheck")]
    /\ UNCHANGED <<world, cache, loadCount, cleared, input, executorVars>>

\* typeCheckVariables, which throws PALCompilerError at the first entry
\* that does not convert
TypeCheck(c) ==
    /\ calls[c].status = "typecheck"
    /\ LET cl == calls[c]
           typedVariables == typeCheckVariables(cl.asm, cl.vars)
       IN  calls' = [calls EXCEPT ![c] =
              IF ~typedVariables.ok
              THEN reject(cl, "typecheck",
                          [CompileError("PALCompilerError")
                              EXCEPT !.variable = typedVariables.err.variable,
                                     !.expectedType = typedVariables.err.expectedType,
                                     !.actualType = typedVariables.err.actualType])
              ELSE [advance(cl, "typecheck", "render")
                       EXCEPT !.typed = typedVariables.typedVars]]
    /\ UNCHANGED <<world, cache, loadCount, cleared, input, executorVars>>

\* the characters of a name of the model
NameChars(n) ==
    CASE n = "p" -> <<"p">>
      [] n = "q" -> <<"q">>
      [] n = "v" -> <<"v">>
      [] n = "w" -> <<"w">>
      [] n = "ghost" -> <<"g", "h", "o", "s", "t">>
      [] n = "constructor" -> <<"c", "o", "n", "s", "t", "r", "u", "c", "t", "o", "r">>
      [] n = "toString" -> <<"t", "o", "S", "t", "r", "i", "n", "g">>
      [] n = "helpful" -> <<"h", "e", "l", "p", "f", "u", "l">>
      [] n = "brief" -> <<"b", "r", "i", "e", "f">>
      [] n = "formal" -> <<"f", "o", "r", "m", "a", "l">>
      [] n = "missing" -> <<"m", "i", "s", "s", "i", "n", "g">>
      [] n = "prompt" -> <<"p", "r", "o", "m", "p", "t">>
      [] OTHER -> NoText

\* an item of a template as it is written in the composition
ItemChars(it) ==
    CASE it.k = "lit" -> it.s
      [] it.k = "var" -> <<"{", "{", " ">> \o NameChars(it.a) \o <<" ", "}", "}">>
      [] it.k = "ref" -> <<"{", "{", " ">> \o NameChars(it.a) \o <<".">>
                         \o NameChars(it.c) \o <<" ", "}", "}">>
      [] OTHER -> <<"{", "%", " ", "i", "n", "c", "l", "u", "d", "e", " ", "\"">>
                  \o NameChars(it.a)
                  \o (IF it.c = "" THEN NoText ELSE <<".">> \o NameChars(it.c))
                  \o <<"\"", " ", "%", "}">>

\* the string fullComposition
RECURSIVE sourceText(_)
sourceText(items) ==
    IF items = <<>> THEN NoText
    ELSE ItemChars(Head(items)) \o sourceText(Tail(items))

TruncateAt == 500

\* the variant of truncated that also cuts a composition of exactly
\* TruncateAt characters
truncatedInclusive(fullComposition) ==
    IF Len(fullComposition) >= TruncateAt
    THEN SubSeq(fullComposition, 1, TruncateAt) \o <<".", ".", ".">>
    ELSE fullComposition

\* fullComposition.length > 500 ? fullComposition.substring(0, 500) + '...'
\*                              : fullComposition
truncated(fullComposition) ==
    IF Len(fullComposition) > TruncateAt
    THEN SubSeq(fullComposition, 1, TruncateAt) \o <<".", ".", ".">>
    ELSE fullComposition

\* env.renderString of the environment compile creates: the nunjucks
\* environment, or (compiler.test.ts l.348-378) an environment put in its
\* place whose renderString throws a value that is no Error
envRenderString(engine, text, context, resolvedLibraries) ==
    IF engine = "nunjucks" THEN renderString(text, context, resolvedLibraries)
    ELSE Rendered(FALSE, NoText, "nonError")

\* the variant of Render that wraps whatever renderString throws
RenderWrapAll(c) ==
    /\ calls[c].status = "render"
    /\ LET cl == calls[c]
           context == buildTemplateContext(cl.result.map, cl.typed)
           fullComposition == Join(cl.asm.composition)
           compiledPrompt == envRenderString(input.engine, fullComposition, context,
                                             cl.result.map)
       IN  calls' = [calls EXCEPT ![c] =
              IF compiledPrompt.ok
              THEN [cl EXCEPT !.status = "done", !.ran = Append(cl.ran, "render"),
                              !.out = Outcome(TRUE,
                                         cleanCompiledPrompt(compiledPrompt.out),
                                         NoCompileError)]
              ELSE reject(cl, "render",
                          [CompileError("PALCompilerError")
                              EXCEPT !.cause = compiledPrompt.err,
                                     !.promptId = cl.asm.id,
                                     !.composition =
                                         truncated(sourceText(fullComposition))])]
    /\ UNCHANGED <<world, cache, loadCount, cleared, input, executorVars>>

\* createNunjucksEnvironment, buildTemplateContext, renderString and
\* cleanCompiledPrompt; an Error of the engine or of the loader is wrapped
\* in PALCompilerError, any other thrown value is thrown on as it is
Render(c) ==
    /\ calls[c].status = "render"
    /\ LET cl == calls[c]
           context == buildTemplateContext(cl.result.map, cl.typed)
           fullComposition == Join(cl.asm.composition)
           compiledPrompt == envRenderString(input.engine, fullComposition, context,
                                             cl.result.map)
       IN  calls' = [calls EXCEPT ![c] =
              IF compiledPrompt.ok
              THEN [cl EXCEPT !.status = "done", !.ran = Append(cl.ran, "render"),
                              !.out = Outcome(TRUE,
                                         cleanCompiledPrompt(compiledPrompt.out),
                                         NoCompileError)]
              ELSE IF compiledPrompt.err = "nonError"
              THEN reject(cl, "render", CompileError("nonError"))
              ELSE reject(cl, "render",
                          [CompileError("PALCompilerError")
                              EXCEPT !.cause = compiledPrompt.err,
                                     !.promptId = cl.asm.id,
                                     !.composition =
                                         truncated(sourceText(fullComposition))])]
    /\ UNCHANGED <<world, cache, loadCount, cleared, input, executorVars>>

(***************************************************************************)
(* The inputs of compile: a world with one library and one nested          *)
(* assembly, compositions of up to MaxLines lines and up to MaxDecls       *)
(* declared variables.                                                     *)
(***************************************************************************)
CompileWorld == [a |-> <<Import("q", FileN)>>, b |-> <<Import("q", FileL)>>]

\* no import, a library, a nested assembly, a missing library, a nested
\* assembly that imports a missing library, an unsupported suffix
RootImports ==
    {<<>>, <<Import("p", FileL)>>, <<Import("p", FileB)>>, <<Import("p", FileN)>>,
     <<Import("p", FileA)>>, <<Import("p", FileX)>>}

CompositionLines ==
    {<<Lit(<<"x">>)>>, <<Var("v")>>,
     <<Ref("p", "helpful")>>, <<Ref("p", "missing")>>, <<Ref("q", "helpful")>>,
     <<Ref("ghost", "helpful")>>, <<Ref("constructor", "helpful")>>,
     <<Inc("p", "helpful")>>, <<Inc("p", "missing")>>, <<Inc("ghost", "helpful")>>}

SeqsUpTo(S, n) == UNION {[1..k -> S] : k \in 1..n}

Compositions == SeqsUpTo(CompositionLines, MaxLines)

VarType(name) == IF name = "v" THEN "integer" ELSE "string"

VarDefs ==
    {VarDef(n, VarType(n), r, d) :
        n \in {"v", "w", "toString"}, r \in BOOLEAN, d \in {Undefined, Str(<<"7">>)}}

Declarations ==
    {<<>>} \cup {ds \in SeqsUpTo(VarDefs, MaxDecls) :
                    \A i, j \in DOMAIN ds : i # j => ds[i].name # ds[j].name}

Supplied ==
    {v \o w : v \in {<<>>, <<Entry("v", Str(<<"7">>))>>, <<Entry("v", Str(<<"a">>))>>},
              w \in {<<>>, <<Entry("w", Str(<<"x">>))>>}}

\* lines of literal text: empty, blank, a word, an indented word
TextLines == {<<Lit(t)>> : t \in {NoText, <<" ">>, <<"a">>, <<" ", "b">>}}

VariableTypes == {"any", "string", "integer", "float", "boolean", "list", "dict"}

\* values a caller supplies for a variable
SuppliedValues ==
    {Undefined, Null, NaN, Bool(TRUE), Bool(FALSE), EmptyArray, EmptyObject}
    \cup {Num(n) : n \in {0, 10, 35, 420, -70}}
    \cup {Str(t) : t \in {NoText, <<" ">>, <<"4", "2">>, <<" ", "4", "2", " ">>,
                          <<"3", ".", "5">>, <<"-", "7">>, <<"x">>,
                          <<"t", "r", "u", "e">>, <<"T", "r", "u", "e">>,
                          <<"1">>, <<"y", "e", "s">>, <<"Y", "E", "S">>,
                          <<"o", "n">>, <<"f", "a", "l", "s", "e">>, <<"0">>,
                          <<"n", "o">>, <<"O", "f", "f">>, <<"o", "f", "f">>,
                          <<"y">>}}

\* every composition with few variables, every declaration with few
\* compositions, the compositions of literal text, and one declared
\* variable of every type supplied with every value
\* a line of n characters
LongLine(n) == <<Lit([i \in 1..n |-> "x"])>>

\* compositions that do not render, of TruncateAt - 1 to TruncateAt + 2
\* characters
LongCompositions ==
    LET tag == <<Inc("ghost", "helpful")>>
    IN  {<<LongLine(TruncateAt - Len(sourceText(tag)) - 1 + d), tag>> :
            d \in -1..2}

CompileInputs ==
    {[asm |-> Assembly("paths", <<Import("p", ip)>>, <<>>, <<<<Lit(<<"x">>)>>>>),
      base |-> bp, vars |-> <<>>, engine |-> "nunjucks"] :
        ip \in {RelL, FileL, UrlL}, bp \in {FileR, RelR, NoPath}}
    \cup
    {[asm |-> Assembly("long", <<>>, <<>>, co), base |-> FileR, vars |-> <<>>,
      engine |-> "nunjucks"] : co \in LongCompositions}
    \cup
    {[asm |-> Assembly("stub", im, <<>>, co), base |-> FileR, vars |-> <<>>,
      engine |-> "stub"] :
        im \in {<<>>, <<Import("p", FileL)>>},
        co \in {<<<<Lit(<<"x">>)>>>>, <<<<Inc("ghost", "helpful")>>>>,
                <<<<Ref("p", "helpful")>>>>}}
    \cup
    {[asm |-> Assembly("extra", <<>>, <<>>, <<<<Lit(<<"x">>)>>>>),
      base |-> FileR, vars |-> <<Entry(n, va)>>, engine |-> "nunjucks"] :
        n \in {"u", "__proto__"}, va \in {Str(<<"4", "2">>), Num(35), Bool(TRUE)}}
    \cup
    {[asm |-> Assembly("context", <<Import("p", FileM)>>, <<>>, <<li>>),
      base |-> FileR, vars |-> su, engine |-> "nunjucks"] :
        li \in {<<Ref("p", "formal")>>, <<Ref("p", "__proto__")>>,
                 <<Var("p")>>, <<Var("u")>>},
        su \in {<<>>, <<Entry("p", Str(<<"4", "2">>))>>,
                 <<Entry("u", Str(<<"4", "2">>))>>}}
    \cup
    {[asm |-> Assembly("typed", <<>>, <<VarDef("v", ty, TRUE, Undefined)>>,
                       <<<<Lit(<<"x">>)>>>>),
      base |-> FileR, vars |-> <<Entry("v", va)>>, engine |-> "nunjucks"] :
        ty \in VariableTypes, va \in SuppliedValues}
    \cup
    {[asm |-> Assembly("text", <<>>, <<>>, co), base |-> FileR, vars |-> <<>>,
      engine |-> "nunjucks"] :
        co \in SeqsUpTo(TextLines, MaxTextLines)}
    \cup
    {[asm |-> Assembly("root", im, dv.ds, co), base |-> FileR, vars |-> dv.su,
      engine |-> "nunjucks"] :
        im \in RootImports, co \in Compositions,
        dv \in {[ds |-> <<>>, su |-> <<>>],
                 [ds |-> <<VarDef("v", "integer", TRUE, Undefined)>>, su |-> <<>>],
                 [ds |-> <<VarDef("v", "integer", TRUE, Undefined)>>,
                  su |-> <<Entry("v", Str(<<"a">>))>>]}}
    \cup
    {[asm |-> Assembly("root", im, ds, co), base |-> FileR, vars |-> su,
      engine |-> "nunjucks"] :
        im \in {<<>>, <<Import("p", FileN)>>},
        co \in {<<<<Lit(<<"x">>)>>>>, <<<<Var("v")>>>>,
                <<<<Ref("ghost", "helpful")>>>>},
        ds \in Declarations, su \in Supplied}

InitCompile ==
    /\ InitExecutor
    /\ world = CompileWorld
    /\ cache = EmptyMap
    /\ calls = <<>>
    /\ loadCount = EmptyMap
    /\ cleared = 0
    /\ input \in CompileInputs

NextCompile ==
    \/ StartCompile
    \/ \E c \in DOMAIN calls : NextImport(c)
    \/ \E c \in DOMAIN calls : LoaderSettles(c)
    \/ \E c \in DOMAIN calls : ReturnResolved(c)
    \/ \E c \in DOMAIN calls : Validate(c)
    \/ \E c \in DOMAIN calls : CheckMissing(c)
    \/ \E c \in DOMAIN calls : TypeCheck(c)
    \/ \E c \in DOMAIN calls : Render(c)

SpecCompile == InitCompile /\ [][NextCompile]_vars

(***************************************************************************)
(* Properties of the Resolver.                                             *)
(***************************************************************************)
Done(c) == c \in DOMAIN calls /\ calls[c].status = "done"

Succeeded(c) == Done(c) /\ calls[c].result.ok

\* the paths loadDependencyRecursive is resolving at the levels of a stack
InProgress(stack, k) == stack[k].pc \in {"awaitLoad", "awaitNested"}

\* the canonical paths the imports of a root resolve to
ImportedPaths(asm, base) ==
    {resolveImportPath(asm.imports[i].path, base) : i \in DOMAIN asm.imports}

\* C1: an import graph that leads back to a path already being resolved
\* raises CircularDependencyError: loadDependencyRecursive never goes on to
\* load a path that an enclosing activation of the same call is still
\* resolving.
C1_CycleRaisesCircularError ==
    \A c \in DOMAIN calls :
        \A j, k \in DOMAIN calls[c].stack :
            (j < k /\ InProgress(calls[c].stack, j) /\ InProgress(calls[c].stack, k))
                => CurPath(calls[c].stack[j]) # CurPath(calls[c].stack[k])

\* C2: memoization across non-overlapping calls: while a path is in the
\* ResolverCache (it was resolved successfully, or was put there by the
\* owner of the cache) no step invokes the Loader for it; and as long as
\* the cache has not been cleared a cached path has been loaded at most
\* once, however many calls imported it.
C2_NoReloadStep == \A p \in DOMAIN cache : Count(p)' = Count(p)

C2_LoadedOnce == \A p \in DOMAIN cache : cleared = 0 => Count(p) <= 1

C2_Memoization == [][C2_NoReloadStep]_vars /\ []C2_LoadedOnce

\* two finished calls imported the same path, which the Loader read once
C2_Witness ==
    /\ cleared = 0
    /\ Succeeded(1) /\ Succeeded(2)
    /\ \E p \in DOMAIN cache :
          /\ Count(p) = 1
          /\ p \in ImportedPaths(calls[1].asm, calls[1].base)
          /\ p \in ImportedPaths(calls[2].asm, calls[2].base)

\* C3: resolveDependencies is idempotent: two successful calls with the same
\* assembly and basePath, the cache never cleared, return equal maps.
C3_Idempotent ==
    \A c, d \in DOMAIN calls :
        (/\ c < d
         /\ Succeeded(c) /\ Succeeded(d)
         /\ cleared = 0
         /\ calls[c].asm = calls[d].asm
         /\ calls[c].base = calls[d].base)
            => calls[c].result.map = calls[d].result.map

(***************************************************************************)
(* Properties of PromptCompiler.compile and Resolver.validateReferences.   *)
(***************************************************************************)
CompileCalls == {c \in DOMAIN calls : calls[c].kind = "compile"}

CompileDone == {c \in CompileCalls : calls[c].status = "done"}

\* the compile calls whose validateReferences has returned or thrown
Validated == {c \in CompileCalls : Len(calls[c].ran) >= 2}

\* whether a stage fails on the inputs of call cl
StageFails(cl, stage) ==
    CASE stage = "resolve" -> ~cl.result.ok
      [] stage = "validate" ->
            LET v == validateReferences(cl.asm, cl.result.map)
            IN  v.threw \/ v.errors # <<>>
      [] stage = "missing" ->
            checkMissingVariables(cl.asm, ObjectOf(cl.vars)) # <<>>
      [] stage = "typecheck" -> ~typeCheckVariables(cl.asm, cl.vars).ok
      [] OTHER ->
            ~envRenderString(input.engine, Join(cl.asm.composition),
                             buildTemplateContext(cl.result.map,
                                 typeCheckVariables(cl.asm, cl.vars).typedVars),
                             cl.result.map).ok

\* whether err is an error that stage raises in call cl
StageError(cl, stage, err) ==
    CASE stage = "resolve" -> err.resolver = cl.result.err /\ err.type = cl.result.err.type
      [] stage = "validate" -> err.type \in {"PALMissingComponentError", "TypeError"}
      [] stage = "missing" -> err.type = "PALMissingVariableError"
      [] stage = "typecheck" -> err.type = "PALCompilerError" /\ err.variable # ""
      [] OTHER -> \/ err.type = "PALCompilerError" /\ err.cause # ""
                  \/ err.type = "nonError"

\* C4: compile is fail-fast in the order resolution, reference validation,
\* missing-variable check, type check, rendering: the stages a call has run
\* are a prefix of that order, every stage before the last one run passed,
\* a call that returns a prompt has run all five, and a call that fails
\* stops at its first failing stage with that stage's error and no prompt.
C4_FailFast ==
    \A c \in CompileCalls :
        LET cl == calls[c]
            n == Len(cl.ran)
        IN  /\ n <= Len(Stages)
            /\ cl.ran = SubSeq(Stages, 1, n)
            /\ \A k \in 1..(n - 1) : ~StageFails(cl, Stages[k])
            /\ cl.status # "done" => (n = 0 \/ ~StageFails(cl, Stages[n]))
            /\ (cl.status = "done" /\ cl.out.ok) =>
                  n = Len(Stages) /\ ~StageFails(cl, Stages[n])
            /\ (cl.status = "done" /\ ~cl.out.ok) =>
                  /\ StageFails(cl, Stages[n])
                  /\ StageError(cl, Stages[n], cl.out.err)
                  /\ cl.out.text = NoText

\* a call that failed at reference validation on inputs whose missing-variable
\* check and rendering would fail too
C4_Witness ==
    \E c \in CompileDone :
        /\ calls[c].ran = <<"resolve", "validate">>
        /\ calls[c].out.err.type = "PALMissingComponentError"
        /\ StageFails(calls[c], "missing")
        /\ StageFails(calls[c], "render")

\* the declared variables that are required, have no default and are not
\* among the supplied entries, in declaration order
Unsupplied(cl) ==
    LET wanted(d) == /\ d.required
                     /\ d.default = Undefined
                     /\ \A i \in DOMAIN cl.vars : cl.vars[i].name # d.name
        ds == SelectSeq(cl.asm.variables, wanted)
    IN  [i \in DOMAIN ds |-> ds[i].name]

ValidationPassed(cl) ==
    /\ cl.result.ok
    /\ validateReferences(cl.asm, cl.result.map) = Validation(FALSE, <<>>)

\* C5: when resolution and reference validation pass, compile raises
\* MissingVariableError if and only if some declared variable is required,
\* has no default and is not supplied, and the error lists all of them in
\* declaration order.
C5_MissingVariables ==
    \A c \in CompileDone :
        ValidationPassed(calls[c]) =>
            /\ (calls[c].out.err.type = "PALMissingVariableError")
                  <=> (Unsupplied(calls[c]) # <<>>)
            /\ Unsupplied(calls[c]) # <<>> =>
                  calls[c].out.err.missingVariables = Unsupplied(calls[c])

\* C6: when validateReferences reports a reference, compile fails with
\* MissingComponentError whose context is the whole diagnostic list, and a
\* diagnostic for a resolved alias lists the names of that library's
\* components.
C6_MissingComponent ==
    \A c \in CompileDone :
        LET cl == calls[c]
            v == validateReferences(cl.asm, cl.result.map)
        IN  (cl.result.ok /\ ~v.threw /\ v.errors # <<>>) =>
               /\ ~cl.out.ok
               /\ cl.out.err.type = "PALMissingComponentError"
               /\ cl.out.err.errors = v.errors
               /\ \A i \in DOMAIN v.errors :
                     v.errors[i].kind = "notFound" =>
                        LET lib == cl.result.map[v.errors[i].alias]
                        IN  v.errors[i].available =
                               [j \in DOMAIN lib.components |-> lib.components[j].name]

\* a call that failed with two diagnostics, one for an unknown alias and one
\* for a component its library does not have
C6_Witness ==
    \E c \in CompileDone :
        /\ calls[c].out.err.type = "PALMissingComponentError"
        /\ Len(calls[c].out.err.errors) = 2
        /\ \E i, j \in DOMAIN calls[c].out.err.errors :
              /\ calls[c].out.err.errors[i].kind = "unknownAlias"
              /\ calls[c].out.err.errors[j].kind = "notFound"
              /\ calls[c].out.err.errors[j].available = <<"helpful", "brief">>

\* the references of a text, in order of occurrence
Refs(text) == SelectSeq(text, LAMBDA it : it.k = "ref")

\* the diagnostic a reference calls for, given the resolved map
Diagnostic(ref, resolvedLibraries) ==
    IF ref.a \notin DOMAIN resolvedLibraries THEN UnknownAlias(ref.a)
    ELSE LET lib == resolvedLibraries[ref.a]
         IN  NotFound(ref.c, ref.a,
                      [j \in DOMAIN lib.components |-> lib.components[j].name])

Satisfiable(ref, resolvedLibraries) ==
    /\ ref.a \in DOMAIN resolvedLibraries
    /\ \E j \in DOMAIN resolvedLibraries[ref.a].components :
          resolvedLibraries[ref.a].components[j].name = ref.c

ExpectedDiagnostics(cl) ==
    LET bad == SelectSeq(Refs(Join(cl.asm.composition)),
                         LAMBDA r : ~Satisfiable(r, cl.result.map))
    IN  [i \in DOMAIN bad |-> Diagnostic(bad[i], cl.result.map)]

\* C7: validateReferences returns, in order of occurrence, one diagnostic
\* for every reference that is not satisfiable: unknown alias when the alias
\* is not a key of the resolved map, component not found otherwise.
C7_Diagnostics ==
    \A c \in Validated :
        validateReferences(calls[c].asm, calls[c].result.map)
            = Validation(FALSE, ExpectedDiagnostics(calls[c]))

\* C8: validateReferences never throws, whatever the composition and the
\* resolved map.
C8_NonThrowing ==
    \A c \in Validated :
        ~validateReferences(calls[c].asm, calls[c].result.map).threw

\* the causes of a rendering failure that are a failed look-up of
\* alias.component by the loader
LookupFailures == {"unknownAlias", "notFound"}

\* C9: when validateReferences returned the empty list, rendering does not
\* fail because an alias.component reference cannot be resolved.
C9_ValidationSound ==
    \A c \in CompileDone :
        ValidationPassed(calls[c]) => calls[c].out.err.cause \notin LookupFailures

\* C10: a look-up failure of the loader during rendering makes compile fail
\* with MissingComponentError.
C10_LookupFailureKind ==
    \A c \in CompileDone :
        (Len(calls[c].ran) = Len(Stages)
            /\ calls[c].out.err.cause \in LookupFailures)
                => calls[c].out.err.type = "PALMissingComponentError"

(***************************************************************************)
(* Properties of the returned prompt.                                      *)
(***************************************************************************)
Returned == {c \in CompileDone : calls[c].out.ok}

\* the characters of a text without template syntax
RECURSIVE TextOf(_)
TextOf(items) ==
    IF items = <<>> THEN NoText ELSE Head(items).s \o TextOf(Tail(items))

LiteralOnly(cl) ==
    /\ cl.asm.imports = <<>>
    /\ \A i \in DOMAIN cl.asm.composition :
          \A j \in DOMAIN cl.asm.composition[i] : cl.asm.composition[i][j].k = "lit"

\* the lines joined with single newlines
Joined(cl) == TextOf(Join(cl.asm.composition))

\* the end of the run of newline characters that starts at i
RECURSIVE NewlineRunEnd(_, _)
NewlineRunEnd(s, i) ==
    IF i < Len(s) /\ s[i + 1] = NL THEN NewlineRunEnd(s, i + 1) ELSE i

\* every run of three or more consecutive newline characters replaced by two
RECURSIVE CollapseNewlines(_, _)
CollapseNewlines(s, i) ==
    IF i > Len(s) THEN NoText
    ELSE IF s[i] # NL THEN <<s[i]>> \o CollapseNewlines(s, i + 1)
    ELSE LET j == NewlineRunEnd(s, i)
         IN  (IF j - i + 1 >= 3 THEN <<NL, NL>> ELSE SubSeq(s, i, j))
             \o CollapseNewlines(s, j + 1)

CountNL(s) == Cardinality({i \in DOMAIN s : s[i] = NL})

\* the end of the run of whitespace that starts at i
RECURSIVE RunEnd(_, _)
RunEnd(s, i) ==
    IF i < Len(s) /\ IsWhitespace(s[i + 1]) THEN RunEnd(s, i + 1) ELSE i

\* in every run of whitespace that holds three or more newlines, the part
\* from its first to its last newline replaced by two newlines
RECURSIVE CollapseBlank(_, _)
CollapseBlank(s, i) ==
    IF i > Len(s) THEN NoText
    ELSE IF ~IsWhitespace(s[i]) THEN <<s[i]>> \o CollapseBlank(s, i + 1)
    ELSE LET j == RunEnd(s, i)
             run == SubSeq(s, i, j)
             first == CHOOSE a \in DOMAIN run :
                          run[a] = NL /\ \A b \in 1..(a - 1) : run[b] # NL
             last == CHOOSE a \in DOMAIN run :
                         run[a] = NL /\ \A b \in (a + 1)..Len(run) : run[b] # NL
         IN  (IF CountNL(run) >= 3
              THEN SubSeq(run, 1, first - 1) \o <<NL, NL>>
                   \o SubSeq(run, last + 1, Len(run))
              ELSE run)
             \o CollapseBlank(s, j + 1)

\* the text without its leading and trailing whitespace
Stripped(s) ==
    LET keep == {i \in DOMAIN s : ~IsWhitespace(s[i])}
    IN  IF keep = {} THEN NoText
        ELSE SubSeq(s, CHOOSE i \in keep : \A j \in keep : i <= j,
                       CHOOSE i \in keep : \A j \in keep : j <= i)

\* C11 as stated: for an assembly without imports and with literal lines
\* only, compile returns the lines joined by newlines, every run of three or
\* more consecutive newlines replaced by two, then trimmed, lines made only
\* of spaces left as they are.
C11_LiteralConsecutive ==
    \A c \in Returned :
        LiteralOnly(calls[c]) =>
            calls[c].out.text = Stripped(CollapseNewlines(Joined(calls[c]), 1))

\* C11 (amended): for an assembly without imports and with literal lines
\* only, compile returns the lines joined by newlines, where every run of
\* whitespace that holds three or more newlines has the part from its first
\* to its last newline replaced by two newlines (the lines made only of
\* spaces between them are dropped), then trimmed.
C11_LiteralBlankLines ==
    \A c \in Returned :
        LiteralOnly(calls[c]) =>
            calls[c].out.text = Stripped(CollapseBlank(Joined(calls[c]), 1))

\* a returned prompt that is not the one of the statement above, from a
\* composition with a line made only of a space
C11_Witness ==
    \E c \in Returned :
        /\ LiteralOnly(calls[c])
        /\ calls[c].out.text # Stripped(CollapseNewlines(Joined(calls[c]), 1))
        /\ \E i \in DOMAIN Joined(calls[c]) :
              /\ Joined(calls[c])[i] = " "
              /\ i > 1 /\ Joined(calls[c])[i - 1] = NL
              /\ i < Len(Joined(calls[c])) /\ Joined(calls[c])[i + 1] = NL

\* C12: a returned prompt holds no three consecutive newline characters and
\* neither starts nor ends with whitespace.
C12_Clean ==
    \A c \in Returned :
        LET t == calls[c].out.text
        IN  /\ \A i \in 1..(Len(t) - 2) :
                  ~(t[i] = NL /\ t[i + 1] = NL /\ t[i + 2] = NL)
            /\ t # NoText => ~IsWhitespace(t[1]) /\ ~IsWhitespace(t[Len(t)])

\* a returned prompt whose rendered text began with whitespace and held
\* three consecutive newlines
C12_Witness ==
    \E c \in Returned :
        LET r == Joined(calls[c])
        IN  /\ LiteralOnly(calls[c])
            /\ calls[c].out.text # NoText
            /\ IsWhitespace(r[1])
            /\ \E i \in 1..(Len(r) - 2) : r[i] = NL /\ r[i + 1] = NL /\ r[i + 2] = NL

(***************************************************************************)
(* Properties of the type check.                                           *)
(***************************************************************************)
\* the compile calls whose typeCheckVariables has returned or thrown
TypeChecked == {c \in CompileCalls : Len(calls[c].ran) >= 4}

\* typeCheckVariables threw
TypeCheckFailed(c) ==
    /\ calls[c].status = "done"
    /\ calls[c].ran = SubSeq(Stages, 1, 4)
    /\ calls[c].out.err.type = "PALCompilerError"

\* the declared type of name in call cl, "" when it is not declared
DeclaredType(cl, name) ==
    IF \E i \in DOMAIN cl.asm.variables : cl.asm.variables[i].name = name
    THEN cl.asm.variables[CHOOSE i \in DOMAIN cl.asm.variables :
                              cl.asm.variables[i].name = name].type
    ELSE ""

\* the supplied v was converted to the value r
ConvertedTo(c, r) ==
    /\ ~TypeCheckFailed(c)
    /\ "v" \in DOMAIN calls[c].typed
    /\ calls[c].typed["v"] = r

Rejected(c) ==
    /\ TypeCheckFailed(c)
    /\ calls[c].out.err.variable = "v"
    /\ calls[c].out.err.expectedType = DeclaredType(calls[c], "v")

\* C13: the coercion of a supplied value to a declared type either yields a
\* value or raises an error, the same on every call; integer and float
\* reject booleans; integer yields a value only when the numeric coercion
\* is an integer ('42' gives 42); boolean maps the strings true, 1, yes, on
\* to true and false, 0, no, off to false whatever their case and rejects
\* every other string; list rejects what is not a sequence; dict rejects
\* null, sequences and what is not an object.
C13_CoercionTable ==
    \A c \in TypeChecked :
        LET cl == calls[c]
            ty == DeclaredType(cl, "v")
        IN  (Len(cl.vars) = 1 /\ cl.vars[1].name = "v" /\ ty # "") =>
            LET va == cl.vars[1].value
                lower == [i \in DOMAIN va.s |-> LowerChar(va.s[i])]
            IN  /\ Rejected(c) \/ (~TypeCheckFailed(c) /\ "v" \in DOMAIN cl.typed)
                /\ \A d \in TypeChecked :
                      (calls[d].asm = cl.asm /\ calls[d].vars = cl.vars) =>
                          /\ TypeCheckFailed(d) <=> TypeCheckFailed(c)
                          /\ calls[d].typed = cl.typed
                /\ (ty \in {"integer", "float"} /\ va.t = "boolean") => Rejected(c)
                /\ (ty = "integer" /\ ~Rejected(c)) =>
                      /\ cl.typed["v"].t = "number"
                      /\ cl.typed["v"].n % 10 = 0
                      /\ cl.typed["v"] = ToNumber(va)
                /\ (ty = "integer" /\ va = Str(<<"4", "2">>)) => ConvertedTo(c, Num(420))
                /\ (ty = "boolean" /\ va.t = "string") =>
                      IF lower \in {<<"t", "r", "u", "e">>, <<"1">>,
                                    <<"y", "e", "s">>, <<"o", "n">>}
                      THEN ConvertedTo(c, Bool(TRUE))
                      ELSE IF lower \in {<<"f", "a", "l", "s", "e">>, <<"0">>,
                                         <<"n", "o">>, <<"o", "f", "f">>}
                      THEN ConvertedTo(c, Bool(FALSE))
                      ELSE Rejected(c)
                /\ (ty = "list" /\ va.t # "array") => Rejected(c)
                /\ (ty = "list" /\ va.t = "array") => ConvertedTo(c, va)
                /\ (ty = "dict" /\ va.t # "object") => Rejected(c)
                /\ (ty = "dict" /\ va.t = "object") => ConvertedTo(c, va)
                /\ ty = "any" => ConvertedTo(c, va)

\* a call that rejected true for an integer, the numeric coercion of true
\* being the integer 1
C13_Witness ==
    \E c \in TypeChecked :
        /\ DeclaredType(calls[c], "v") = "integer"
        /\ calls[c].vars = <<Entry("v", Bool(TRUE))>>
        /\ Rejected(c)

Declared(cl, name) ==
    \E i \in DOMAIN cl.asm.variables : cl.asm.variables[i].name = name

\* the value the caller supplied for name
SuppliedValue(cl, name) ==
    cl.vars[CHOOSE i \in DOMAIN cl.vars : cl.vars[i].name = name].value

\* C14: a supplied variable that is not declared never makes the type check
\* fail and is bound in the typed variables to exactly the supplied value.
C14_PassThrough ==
    \A c \in TypeChecked :
        \A i \in DOMAIN calls[c].vars :
            LET name == calls[c].vars[i].name
            IN  ~Declared(calls[c], name) =>
                   /\ ~(TypeCheckFailed(c) /\ calls[c].out.err.variable = name)
                   /\ ~TypeCheckFailed(c) =>
                         /\ name \in DOMAIN calls[c].typed
                         /\ calls[c].typed[name] = SuppliedValue(calls[c], name)

Supplies(cl, name) == \E i \in DOMAIN cl.vars : cl.vars[i].name = name

\* the zero value of a type
ZeroValue(type) ==
    CASE type = "string" -> Str(NoText)
      [] type = "integer" -> Num(0)
      [] type = "float" -> Num(0)
      [] type = "boolean" -> Bool(FALSE)
      [] type = "list" -> EmptyArray
      [] type = "dict" -> EmptyObject
      [] OTHER -> Null

\* C15: in the typed variables every declared variable the caller did not
\* supply is bound to its explicit default when it has one, else, when it is
\* not required, to the zero value of its type; a supplied value is never
\* replaced by a default; and every declared variable is bound.
C15_DefaultFilling ==
    \A c \in TypeChecked :
        ~TypeCheckFailed(c) =>
            \A i \in DOMAIN calls[c].asm.variables :
                LET d == calls[c].asm.variables[i]
                    typed == calls[c].typed
                IN  /\ d.name \in DOMAIN typed
                    /\ Supplies(calls[c], d.name) =>
                          typed[d.name] =
                             convertVariable(SuppliedValue(calls[c], d.name), d.type).v
                    /\ (~Supplies(calls[c], d.name) /\ d.default # Undefined) =>
                          typed[d.name] = d.default
                    /\ (~Supplies(calls[c], d.name) /\ d.default = Undefined
                          /\ ~d.required) => typed[d.name] = ZeroValue(d.type)

(***************************************************************************)
(* Properties of the errors of resolveDependencies.                        *)
(***************************************************************************)
ResolverErrors == {"PALResolverError", "PALCircularDependencyError"}

\* whether resolving the canonical path fails in world w: an unsupported
\* suffix, a file the Loader cannot load, or an assembly one of whose
\* imports fails
RECURSIVE PathFails(_, _, _)
PathFails(w, path, fuel) ==
    IF ~isLibraryPath(path) /\ ~isAssemblyPath(path) THEN TRUE
    ELSE IF path \notin DOMAIN Files(w) THEN TRUE
    ELSE IF isLibraryPath(path) THEN Files(w)[path].t # "lib"
    ELSE \/ Files(w)[path].t # "asm"
         \/ /\ fuel > 0
            /\ \E i \in DOMAIN Files(w)[path].v.imports :
                  PathFails(w, resolveImportPath(Files(w)[path].v.imports[i].path,
                                                 dirname(path)), fuel - 1)

RenderFailed == {c \in CompileDone : calls[c].ran = Stages /\ ~calls[c].out.ok}

\* the joined composition as the caller wrote it
Written(cl) == sourceText(Join(cl.asm.composition))

\* C17: when rendering throws an Error, compile fails with a CompilerError
\* whose context holds the assembly id and the joined composition, as it is
\* when it has at most 500 characters and else its first 500 characters
\* followed by an ellipsis, and no prompt is returned.
C17_RenderErrorContext ==
    \A c \in RenderFailed :
        input.engine = "nunjucks" =>
            /\ calls[c].out.err.type = "PALCompilerError"
            /\ calls[c].out.err.promptId = calls[c].asm.id
            /\ calls[c].out.text = NoText
            /\ LET full == Written(calls[c])
                   copy == calls[c].out.err.composition
               IN  IF Len(full) <= 500 THEN copy = full
                   ELSE /\ Len(copy) = 503
                        /\ SubSeq(copy, 1, 500) = SubSeq(full, 1, 500)
                        /\ SubSeq(copy, 501, 503) = <<".", ".", ".">>

\* a failed rendering of a composition of 501 characters
C17_Witness ==
    \E c \in RenderFailed :
        /\ Len(Written(calls[c])) = 501
        /\ calls[c].out.err.cause = "unknownAlias"
        /\ Len(calls[c].out.err.composition) = 503

\* C18: when the engine throws a value that is no Error, compile rejects
\* with that value, not wrapped in a CompilerError.
C18_NonErrorRethrown ==
    \A c \in RenderFailed :
        input.engine = "stub" =>
            /\ calls[c].out.err = CompileError("nonError")
            /\ calls[c].out.text = NoText

\* a compile that reached the rendering with the environment whose
\* renderString throws a string
C18_Witness ==
    \E c \in RenderFailed :
        /\ input.engine = "stub"
        /\ calls[c].out.err.type = "nonError"
        /\ calls[c].result.ok

(***************************************************************************)
(* Properties of the canonical paths.                                      *)
(***************************************************************************)
\* the directory of base followed by the relative path: the working
\* directory comes first when base is relative itself
Against(base, path) ==
    [kind |-> "abs",
     segs |-> (IF base.kind = "abs" THEN <<>> ELSE <<"cwd">>)
              \o SubSeq(base.segs, 1, Len(base.segs) - 1) \o path.segs,
     ext |-> path.ext]

\* C19: for a top-level import the Loader is given the URL unchanged, the
\* absolute path unchanged whatever basePath is, the relative path resolved
\* against the directory of basePath when basePath is supplied, and the
\* relative path as written when it is not.
C19_CanonicalPath ==
    \A c \in DOMAIN calls :
        (Len(calls[c].stack) = 1 /\ calls[c].stack[1].pc = "awaitLoad") =>
            LET lv == calls[c].stack[1]
                importPath == lv.asm.imports[lv.i].path
                given == CurPath(lv)
            IN  /\ Count(given) >= 1
                /\ lv.base = calls[c].base
                /\ importPath.kind = "url" => given = importPath
                /\ importPath.kind = "abs" => given = importPath
                /\ (importPath.kind = "rel" /\ calls[c].base.kind = "none") =>
                      given = importPath
                /\ (importPath.kind = "rel" /\ calls[c].base.kind # "none") =>
                      given = Against(calls[c].base, importPath)

\* the Loader was given a relative path resolved against the directory of a
\* relative basePath
C19_Witness ==
    \E c \in DOMAIN calls :
        /\ Len(calls[c].stack) = 1 /\ calls[c].stack[1].pc = "awaitLoad"
        /\ calls[c].base = RelR
        /\ calls[c].asm.imports[calls[c].stack[1].i].path = RelL
        /\ Count(Abs(<<"cwd", "s", "l">>, ".pal.lib")) = 1

(***************************************************************************)
(* PromptExecutor (src/core/executor.ts): execute, getExecutionHistory,    *)
(* clearHistory.  An array is a value on the heap, reached by reference:   *)
(* the executor's field and the caller's variables hold references, so     *)
(* that two of them can name one array.                                    *)
(***************************************************************************)
\* calls of execute; arrays ever allocated; the caller pushes onto an array
\* it holds only while the array is shorter than MaxPushes
MaxExecutes == 2
MaxArrays == 3
MaxPushes == 1

\* what LLMClient.generate settles with: a response, a thrown Error, or a
\* thrown value that is not an Error
ResponseData(response) == [ok |-> TRUE, response |-> response, error |-> Null]
Thrown(isError, message) ==
    [ok |-> FALSE, response |-> "",
     error |-> [isError |-> isError, message |-> message]]
NoResponse == [ok |-> FALSE, response |-> "", error |-> Null]
ClientOutcomes ==
    {ResponseData("Mock response"), Thrown(TRUE, "API Error"),
     Thrown(FALSE, "boom")}

\* String(error) of a thrown string is the string; error.toString() of an
\* Error is "Error: " + message
StringOf(error) ==
    IF error.isError THEN <<"Error: ", error.message>> ELSE <<error.message>>

\* l.403-404: error instanceof Error ? error.message : String(error)
errorMessage(error) ==
    IF error.isError THEN <<error.message>> ELSE StringOf(error)

\* l.369-391 and l.406-421: the ExecutionResult of a call
ExecutionResult(executionId, promptId, compiledPrompt, response, success, error) ==
    [promptId |-> promptId, compiledPrompt |-> compiledPrompt,
     response |-> response, executionId |-> executionId,
     success |-> success, error |-> error]

\* l.429-437: new PALExecutorError(`Execution failed for ${id}: ${message}`)
PALExecutorError(executionId, promptId, message) ==
    [type |-> "PALExecutorError",
     message |-> <<"Execution failed for ", promptId, ": ">> \o message,
     executionId |-> executionId, promptId |-> promptId, error |-> message]

NoSettlement == [kind |-> "pending"]
Settled(kind, value) == [kind |-> kind, value |-> value]

History == arrays[executionHistory]

\* Array.prototype.push on the array the reference names
push(as, ref, item) == [as EXCEPT ![ref] = Append(@, item)]

\* l.333-356: execute() takes an id and awaits logPreExecution, which writes
\* a line of the log and never throws (writeToLogFile catches, l.533-546);
\* then it calls the client
Execute ==
    /\ Len(executions) < MaxExecutes
    /\ executions' = Append(executions,
            [pc |-> "generate", executionId |-> Len(executions) + 1,
             promptId |-> "test-prompt", compiledPrompt |-> "Hello",
             client |-> NoResponse, settled |-> NoSettlement])
    /\ UNCHANGED <<coreVars, arrays, executionHistory, held>>

\* l.358-367 and l.399: the client's promise settles; execute goes on to
\* await estimateCost and logPostExecution, or logError
GenerateSettles(e) ==
    /\ executions[e].pc = "generate"
    /\ \E out \in ClientOutcomes :
        executions' = [executions EXCEPT
            ![e].client = out,
            ![e].pc = IF out.ok THEN "logPostExecution" ELSE "logError"]
    /\ UNCHANGED <<coreVars, arrays, executionHistory, held>>

\* l.369-398: the result is built, logged, pushed and returned
RecordSuccess(e) ==
    /\ executions[e].pc = "logPostExecution"
    /\ LET x == executions[e]
           result == ExecutionResult(x.executionId, x.promptId,
                        x.compiledPrompt, x.client.response, TRUE, NoText)
       IN  /\ arrays' = push(arrays, executionHistory, result)
           /\ executions' = [executions EXCEPT
                  ![e].pc = "done", ![e].settled = Settled("returned", result)]
    /\ UNCHANGED <<coreVars, executionHistory, held>>

\* l.399-438: the error result is built, logged, pushed, and
\* PALExecutorError is thrown
RecordFailure(e) ==
    /\ executions[e].pc = "logError"
    /\ LET x == executions[e]
           message == errorMessage(x.client.error)
           errorResult == ExecutionResult(x.executionId, x.promptId,
                            x.compiledPrompt, "", FALSE, message)
       IN  /\ arrays' = push(arrays, executionHistory, errorResult)
           /\ executions' = [executions EXCEPT
                  ![e].pc = "done",
                  ![e].settled = Settled("thrown",
                        PALExecutorError(x.executionId, x.promptId, message))]
    /\ UNCHANGED <<coreVars, executionHistory, held>>

\* a variant that hands out the executor's own array
getExecutionHistoryShared(as, ref) == [arrays |-> as, ref |-> ref]

\* l.667-669: return [...this.executionHistory], a new array with the same
\* elements
getExecutionHistory(as, ref) ==
    [arrays |-> Append(as, as[ref]), ref |-> Len(as) + 1]

GetExecutionHistory ==
    /\ Len(arrays) < MaxArrays
    /\ LET r == getExecutionHistory(arrays, executionHistory)
       IN  /\ arrays' = r.arrays
           /\ held' = Append(held, r.ref)
    /\ UNCHANGED <<coreVars, executionHistory, executions>>

\* l.674-676: this.executionHistory = [], a new array; the old one stays as
\* it is
ClearHistory ==
    /\ Len(arrays) < MaxArrays
    /\ arrays' = Append(arrays, <<>>)
    /\ executionHistory' = Len(arrays) + 1
    /\ UNCHANGED <<coreVars, executions, held>>

\* what a caller can do to an array it was given: push an element, pop the
\* last one, or empty the array (length = 0)
Foreign == ExecutionResult(0, "other", "", "", TRUE, NoText)
MutateHeld(h) ==
    /\ \/ /\ Len(arrays[held[h]]) < MaxPushes
          /\ arrays' = push(arrays, held[h], Foreign)
       \/ /\ arrays[held[h]] # <<>>
          /\ arrays' = [arrays EXCEPT ![held[h]] = SubSeq(@, 1, Len(@) - 1)]
       \/ /\ arrays[held[h]] # <<>>
          /\ arrays' = [arrays EXCEPT ![held[h]] = <<>>]
    /\ UNCHANGED <<coreVars, executionHistory, executions, held>>

NextExecutor ==
    \/ Execute
    \/ \E e \in DOMAIN executions : GenerateSettles(e)
    \/ \E e \in DOMAIN executions : RecordSuccess(e)
    \/ \E e \in DOMAIN executions : RecordFailure(e)
    \/ GetExecutionHistory
    \/ ClearHistory
    \/ \E h \in DOMAIN held : MutateHeld(h)

InitExecutorOnly ==
    /\ InitExecutor
    /\ world = CompileWorld
    /\ cache = EmptyMap
    /\ calls = <<>>
    /\ loadCount = EmptyMap
    /\ cleared = 0
    /\ input = NoInput

SpecExecutor == InitExecutorOnly /\ [][NextExecutor]_vars

\* the calls of execute that complete in this step
Completed(xs, e) == e \in DOMAIN xs /\ xs[e].pc = "done"
Completing ==
    {e \in DOMAIN executions' : Completed(executions', e) /\ ~Completed(executions, e)}

\* the message of what the client threw
MessageOf(error) == <<error.message>>

\* C20: every call of execute that completes appends exactly one
\* ExecutionResult at the end of the history, with success = true and the
\* response when the client returned (execute returns that result), with
\* success = false and the error message when the client failed (execute
\* throws PALExecutorError); clearHistory leaves the history empty; the array
\* getExecutionHistory returns has the elements of the history, and no other
\* step, a mutation of such an array included, changes the history.
C20_History ==
    [][/\ Cardinality(Completing) <= 1
       /\ \A e \in Completing :
            LET x == executions'[e]
                r == History'[Len(History')]
            IN  /\ executionHistory' = executionHistory
                /\ Len(History') = Len(History) + 1
                /\ SubSeq(History', 1, Len(History)) = History
                /\ r.executionId = x.executionId
                /\ r.promptId = x.promptId
                /\ r.success = x.client.ok
                /\ x.client.ok =>
                        /\ r.response = x.client.response
                        /\ x.settled = Settled("returned", r)
                /\ ~x.client.ok =>
                        /\ r.error = MessageOf(x.client.error)
                        /\ x.settled.kind = "thrown"
                        /\ x.settled.value.type = "PALExecutorError"
       /\ ClearHistory => History' = <<>>
       /\ GetExecutionHistory =>
            /\ arrays'[held'[Len(held')]] = History
            /\ History' = History
       /\ (Completing = {} /\ ~ClearHistory) => History' = History
      ]_vars

\* two calls completed in the reverse of the order they were made in, the
\* later one failed and the earlier one succeeded; the caller has emptied the
\* array it was given after both
C20_Witness ==
    /\ Len(History) = 2
    /\ History[1].executionId = 2 /\ ~History[1].success
    /\ History[1].error = <<"API Error">>
    /\ History[2].executionId = 1 /\ History[2].success
    /\ \E h \in DOMAIN held : arrays[held[h]] = <<>>

(***************************************************************************)
(* Properties of the order in which resolveDependencies works.             *)
(***************************************************************************)
\* the canonical path of import j of a call
ImportPath(cl, j) == resolveImportPath(cl.asm.imports[j].path, cl.base)

\* the paths resolving a canonical path can reach in world w: the path, and
\* for an assembly file the paths its imports reach
RECURSIVE Reach(_, _, _)
Reach(w, path, fuel) ==
    {path} \cup
    (IF fuel > 0 /\ isAssemblyPath(path) /\ ~isLibraryPath(path)
        /\ path \in DOMAIN Files(w) /\ Files(w)[path].t = "asm"
     THEN UNION {Reach(w, resolveImportPath(Files(w)[path].v.imports[k].path,
                                            dirname(path)), fuel - 1) :
                    k \in DOMAIN Files(w)[path].v.imports}
     ELSE {})

\* the paths the imports 1..i of a call can reach
ReachUpTo(cl, i) ==
    UNION {Reach(world, ImportPath(cl, j), MaxDepth) :
              j \in {k \in DOMAIN cl.asm.imports : k <= i}}

\* the imports of a call whose resolution fails
FailingImports(cl) ==
    {j \in DOMAIN cl.asm.imports : PathFails(world, ImportPath(cl, j), MaxDepth)}

\* the paths the Loader has been invoked for
Loaded == {p \in DOMAIN loadCount : loadCount[p] > 0}

\* C21: imports are resolved in declaration order and the call aborts at
\* the first that fails: a call one of whose imports fails throws, with the
\* error of the first failing import, and returns no map; and the Loader is
\* not invoked for an import before the imports declared ahead of it are
\* resolved, nor for any import declared after the one that failed.
C21_AbortAtFirstFailure ==
    \A c \in DOMAIN calls :
        LET cl == calls[c]
            failing == FailingImports(cl)
        IN  /\ (cl.status # "resolving" /\ failing # {}) =>
                  LET i == CHOOSE j \in failing : \A k \in failing : j <= k
                  IN  /\ ~cl.result.ok
                      /\ cl.result.map = EmptyMap
                      /\ cl.result.err.alias = cl.asm.imports[i].alias
                      /\ cl.result.err.path = ImportPath(cl, i)
                      /\ Len(calls) = 1 => Loaded \subseteq ReachUpTo(cl, i)
            /\ (cl.status # "resolving" /\ failing = {}) => cl.result.ok
            /\ (cl.status = "resolving" /\ Len(calls) = 1) =>
                  Loaded \subseteq ReachUpTo(cl, cl.stack[1].i)

\* the Loader was invoked for the first import and failed; it was never
\* invoked for the library declared after it
C21_Witness ==
    \E c \in DOMAIN calls :
        /\ Len(calls) = 1
        /\ calls[c].status = "done" /\ ~calls[c].result.ok
        /\ Len(calls[c].asm.imports) = 2
        /\ FailingImports(calls[c]) = {1}
        /\ ImportPath(calls[c], 2) = FileM
        /\ Count(FileM) = 0
        /\ Count(ImportPath(calls[c], 1)) = 1

\* C22: a path is in visitedPaths only while its loadDependencyRecursive is
\* under way: between two imports of a resolveDependencies the set is empty,
\* while an import is being resolved the set holds its path and nothing
\* else, and when the outermost resolveDependencies has returned or thrown
\* the set is empty.
C22_ScopedRelease ==
    \A c \in DOMAIN calls :
        /\ \A k \in DOMAIN calls[c].stack :
              LET lv == calls[c].stack[k]
              IN  IF lv.pc = "loop" THEN lv.visited = {}
                  ELSE lv.visited = {CurPath(lv)}
        /\ calls[c].status # "resolving" => calls[c].visited = {}

\* a call whose first import was resolved through a nested assembly and
\* whose second import failed at the Loader
C22_Witness ==
    \E c \in DOMAIN calls :
        /\ calls[c].status = "done" /\ ~calls[c].result.ok
        /\ calls[c].visited = {}
        /\ FailingImports(calls[c]) = {2}
        /\ isAssemblyPath(ImportPath(calls[c], 1))
        /\ ~isLibraryPath(ImportPath(calls[c], 1))
        /\ Count(ImportPath(calls[c], 2)) >= 1

(***************************************************************************)
(* Properties of the steps of loadDependencyRecursive.                     *)
(***************************************************************************)
\* call c is about to resolve an import whose canonical path is cached
AtCachedImport(c) ==
    /\ calls[c].status = "resolving"
    /\ Top(calls[c]).pc = "loop"
    /\ Top(calls[c]).i <= Len(Top(calls[c]).asm.imports)
    /\ CurPath(Top(calls[c])) \in DOMAIN cache

\* C23: resolving an import whose canonical path is in the cache binds the
\* import's alias to the cached library and does nothing else: the Loader is
\* not invoked, the cache stays as it is, and the result map gains no other
\* alias.
C23_CacheHit ==
    [][\A c \in DOMAIN calls :
          (AtCachedImport(c) /\ calls'[c] # calls[c]) =>
              LET lv == Top(calls[c])
                  after == Top(calls'[c])
              IN  /\ calls'[c].status = "resolving"
                  /\ Len(calls'[c].stack) = Len(calls[c].stack)
                  /\ DOMAIN after.resolved = DOMAIN lv.resolved \cup {CurAlias(lv)}
                  /\ after.resolved[CurAlias(lv)] = cache[CurPath(lv)]
                  /\ \A a \in DOMAIN lv.resolved \ {CurAlias(lv)} :
                        after.resolved[a] = lv.resolved[a]
                  /\ after.i = lv.i + 1
                  /\ after.pc = "loop"
                  /\ cache' = cache
                  /\ loadCount' = loadCount
      ]_vars

\* two calls with the same assembly, the second served from the cache: the
\* map of the first holds an alias of a nested assembly that the map of the
\* second lacks, and the Loader read every file once
C23_Witness ==
    /\ cleared = 0
    /\ Len(calls) = 2
    /\ calls[1].status = "done" /\ calls[1].result.ok
    /\ calls[2].status = "done" /\ calls[2].result.ok
    /\ calls[1].asm = calls[2].asm
    /\ DOMAIN calls[1].result.map \ DOMAIN calls[2].result.map # {}
    /\ \A p \in DOMAIN loadCount : loadCount[p] = 1

\* the lines with a newline between each two, from line i on
RECURSIVE LinesFrom(_, _)
LinesFrom(lines, i) ==
    IF i > Len(lines) THEN <<>>
    ELSE IF i = Len(lines) THEN lines[i]
    ELSE lines[i] \o <<Lit(<<NL>>)>> \o LinesFrom(lines, i + 1)

\* the path is one of an assembly file: it ends in .pal or .yml and not in
\* a library suffix
HasAssemblySuffix(path) ==
    /\ path.ext \in {".pal", ".yml"}

\* a nested resolveDependencies of call c returns in this step
NestedReturns(c) ==
    /\ calls[c].status = "resolving"
    /\ calls'[c].status = "resolving"
    /\ Len(calls'[c].stack) = Len(calls[c].stack) - 1

\* C24: an uncached import whose path has an assembly suffix is loaded as a
\* PromptAssembly and the imports of that assembly are resolved against its
\* directory; when they are, every alias of the nested map is in the
\* caller's map, bound as in the nested map unless it is the import's own
\* alias, the import's alias is bound to a library with the one component
\* "prompt" whose content is the composition of the assembly joined by
\* newlines, and that library is in the cache under the import's path.
C24_NestedAssembly ==
    /\ [](\A c \in DOMAIN calls : \A k \in DOMAIN calls[c].stack :
            LET lv == calls[c].stack[k]
            IN  lv.pc = "awaitNested" =>
                    /\ HasAssemblySuffix(CurPath(lv))
                    /\ lv.nested = Files(world)[CurPath(lv)].v
                    /\ calls[c].stack[k + 1].asm = lv.nested
                    /\ calls[c].stack[k + 1].base = dirname(CurPath(lv)))
    /\ [][\A c \in DOMAIN calls :
            (/\ calls[c].status = "resolving"
             /\ Top(calls[c]).pc = "awaitLoad"
             /\ HasAssemblySuffix(CurPath(Top(calls[c])))
             /\ calls'[c] # calls[c]) =>
                LET path == CurPath(Top(calls[c]))
                IN  IF path \in DOMAIN Files(world) /\ Files(world)[path].t = "asm"
                    THEN /\ Len(calls'[c].stack) = Len(calls[c].stack) + 1
                         /\ Top(calls'[c]).asm = Files(world)[path].v
                         /\ Top(calls'[c]).i = 1
                         /\ Top(calls'[c]).resolved = EmptyMap
                         /\ cache' = cache
                    ELSE /\ calls'[c].status = "done"
                         /\ ~calls'[c].result.ok
      ]_vars
    /\ [][\A c \in DOMAIN calls :
            NestedReturns(c) =>
                LET n == Len(calls[c].stack)
                    nestedResolved == calls[c].stack[n].resolved
                    up == calls[c].stack[n - 1]
                    after == calls'[c].stack[n - 1]
                    library == after.resolved[CurAlias(up)]
                IN  /\ DOMAIN after.resolved =
                          DOMAIN up.resolved \cup DOMAIN nestedResolved
                              \cup {CurAlias(up)}
                    /\ \A a \in DOMAIN nestedResolved \ {CurAlias(up)} :
                          after.resolved[a] = nestedResolved[a]
                    /\ \A a \in DOMAIN up.resolved \
                                (DOMAIN nestedResolved \cup {CurAlias(up)}) :
                          after.resolved[a] = up.resolved[a]
                    /\ Len(library.components) = 1
                    /\ library.components[1].name = "prompt"
                    /\ library.components[1].content =
                          LinesFrom(Files(world)[CurPath(up)].v.composition, 1)
                    /\ library.library_id = Files(world)[CurPath(up)].v.id
                    /\ CurPath(up) \in DOMAIN cache'
                    /\ cache'[CurPath(up)] = library
                    /\ \A p \in DOMAIN cache : p # CurPath(up) =>
                          p \in DOMAIN cache' /\ cache'[p] = cache[p]
      ]_vars

\* a call that imported b.yml under one alias has returned: its map binds
\* the alias to the library made of b.yml, whose composition has two lines,
\* and holds the alias b.yml imports a library under
C24_Witness ==
    \E c \in DOMAIN calls :
        /\ calls[c].status = "done" /\ calls[c].result.ok
        /\ Len(calls[c].asm.imports) = 1
        /\ ImportPath(calls[c], 1) = FileB
        /\ FileB \in DOMAIN cache
        /\ calls[c].result.map[calls[c].asm.imports[1].alias] = cache[FileB]
        /\ cache[FileB].components[1].content =
              <<Lit(<<"b">>), Lit(<<NL>>), Lit(<<"c">>)>>
        /\ Cardinality(DOMAIN calls[c].result.map) = 2
        /\ Count(FileL) = 1

(***************************************************************************)
(* Properties of the rendering context.                                    *)
(***************************************************************************)
\* the context compile builds for a call whose variables are typed
Context(cl) == buildTemplateContext(cl.result.map, cl.typed)

\* C25: the context binds every name of the typed variable map that is no
\* resolved alias to its value, and every resolved alias to a dictionary
\* that holds the content of every component of the library under the
\* component's name; a variable with the name of an alias is bound to the
\* alias's dictionary.
C25_Context ==
    \A c \in TypeChecked :
        LET cl == calls[c]
            ctx == Context(cl)
        IN  (cl.result.ok /\ ~TypeCheckFailed(c)) =>
                /\ \A n \in DOMAIN cl.typed \ DOMAIN cl.result.map :
                      /\ n \in DOMAIN ctx
                      /\ ~ctx[n].dict
                      /\ ctx[n].v = cl.typed[n]
                /\ \A a \in DOMAIN cl.result.map :
                      /\ a \in DOMAIN ctx
                      /\ ctx[a].dict
                      /\ \A i \in DOMAIN cl.result.map[a].components :
                            LET component == cl.result.map[a].components[i]
                            IN  /\ component.name \in DOMAIN ctx[a].d
                                /\ ctx[a].d[component.name] = component.content

(***************************************************************************)
(* Overlapping calls.  resolveDependencies is async and the Resolver of a  *)
(* PromptCompiler is shared by all its compile calls (compiler.ts          *)
(* l.96-99): a call can start while another is suspended at an await.      *)
(***************************************************************************)
\* worlds without a cycle in which every load succeeds
OverlapWorlds ==
    {[a |-> ia, b |-> ib] :
        ia \in {<<Import("p", FileL)>>, <<Import("p", FileB)>>,
                <<Import("p", FileB), Import("q", FileL)>>,
                <<Import("p", FileL), Import("q", FileM)>>},
        ib \in {<<>>, <<Import("q", FileL)>>, <<Import("q", FileM)>>}}

\* resolveDependencies is called, whatever the other calls are doing
StartResolveOverlapping ==
    /\ Len(calls) < MaxCalls
    /\ \E r \in Roots(world) :
          calls' = Append(calls, Call("resolve", r.asm, r.base, <<>>))
    /\ UNCHANGED <<world, cache, loadCount, cleared, input, executorVars>>

InitOverlap ==
    /\ InitExecutor
    /\ world \in OverlapWorlds
    /\ cache = EmptyMap
    /\ calls = <<>>
    /\ loadCount = EmptyMap
    /\ cleared = 0
    /\ input = NoInput

NextOverlap ==
    \/ StartResolveOverlapping
    \/ \E c \in DOMAIN calls : NextImport(c)
    \/ \E c \in DOMAIN calls : LoaderSettles(c)
    \/ \E c \in DOMAIN calls : ReturnResolved(c)

SpecOverlap == InitOverlap /\ [][NextOverlap]_vars

\* C26: with one cache, never cleared, and loads that all succeed, the
\* Loader is invoked at most once for a path, also when the calls that
\* import the path overlap.
C26_OverlapMemoization ==
    \A p \in DOMAIN loadCount : loadCount[p] <= 1

(***************************************************************************)
(* Type soundness of the typed variable map.                               *)
(***************************************************************************)
\* the value is one of the declared type
Conforms(value, type) ==
    CASE type = "integer" -> value.t = "number" /\ value.n % 10 = 0
      [] type = "float" -> value.t = "number"
      [] type = "boolean" -> value.t = "boolean"
      [] type = "string" -> value.t = "string"
      [] type = "list" -> value.t = "array"
      [] type = "dict" -> value.t = "object"
      [] OTHER -> TRUE

\* C27: when typeCheckVariables has returned, every declared variable that
\* the typed map binds holds a value of its declared type, supplied or
\* taken from the declared default.
C27_TypeSoundness ==
    \A c \in TypeChecked :
        ~TypeCheckFailed(c) =>
            \A i \in DOMAIN calls[c].asm.variables :
                LET d == calls[c].asm.variables[i]
                IN  d.name \in DOMAIN calls[c].typed =>
                        Conforms(calls[c].typed[d.name], d.type)

(***************************************************************************)
(* Relative imports of a nested assembly.                                  *)
(***************************************************************************)
\* the levels of call c that resolve the imports of a nested assembly and
\* stand at an import
NestedAtImport(c) ==
    {k \in 2..Len(calls[c].stack) :
        calls[c].stack[k].i <= Len(calls[c].stack[k].asm.imports)}

\* C28: a relative import declared in a nested assembly loaded from path P
\* is resolved against the directory that contains P, as a relative import
\* of a top-level assembly is against the directory of its basePath.
C28_NestedRelative ==
    \A c \in DOMAIN calls :
        \A k \in NestedAtImport(c) :
            LET lv == calls[c].stack[k]
                P == CurPath(calls[c].stack[k - 1])
                importPath == lv.asm.imports[lv.i].path
            IN  importPath.kind = "rel" =>
                    CurPath(lv) = resolve(dirname(P), importPath)

(***************************************************************************)
(* The cache after a failed resolveDependencies.                           *)
(***************************************************************************)
\* the levels of a call that stand at an import
AtImport(cl) == {k \in DOMAIN cl.stack : cl.stack[k].i <= Len(cl.stack[k].asm.imports)}

\* call c takes a step in which its resolveDependencies throws
Throws(c) ==
    /\ calls[c].status = "resolving"
    /\ calls'[c].status # "resolving"
    /\ ~calls'[c].result.ok

\* call c takes the step of loadDependencyRecursive that starts at an import
\* whose path fails and that the Loader has been invoked for before
MeetsFailedPath(c) ==
    /\ calls[c].status = "resolving"
    /\ calls'[c] # calls[c]
    /\ Top(calls[c]).pc = "loop"
    /\ Top(calls[c]).i <= Len(Top(calls[c]).asm.imports)
    /\ PathFails(world, CurPath(Top(calls[c])), MaxDepth)
    /\ Count(CurPath(Top(calls[c]))) >= 1

\* C29: a failed resolveDependencies leaves no poisoned cache entry.  No
\* path whose resolution fails is ever a key of the cache; a step of a call
\* adds at most the one path whose load completes successfully in that step;
\* the step in which the call throws leaves the cache as it was, without
\* the failing path and without the nested assemblies whose import failed;
\* and a later call that meets such a path invokes the Loader for it again.
C29_NoPoisonedEntry ==
    /\ [](\A p \in DOMAIN cache : ~PathFails(world, p, MaxDepth))
    /\ [][\A c \in DOMAIN calls :
             /\ Throws(c) =>
                   /\ cache' = cache
                   /\ \A k \in DOMAIN calls[c].stack :
                         CurPath(calls[c].stack[k]) \notin DOMAIN cache'
             /\ (calls[c].status = "resolving" /\ calls'[c] # calls[c]
                   /\ cache' # cache) =>
                   \E k \in AtImport(calls[c]) :
                      LET path == CurPath(calls[c].stack[k])
                      IN  /\ path \notin DOMAIN cache
                          /\ path \in DOMAIN cache'
                          /\ cache' = Put(cache, path, cache'[path])
                          /\ ~PathFails(world, path, MaxDepth)
                          /\ Count(path) >= 1
             /\ MeetsFailedPath(c) =>
                   LET path == CurPath(Top(calls[c]))
                   IN  /\ path \notin DOMAIN cache
                       /\ loaderKind(path) # "unsupported" =>
                             loadCount' = Put(loadCount, path, Count(path) + 1)
         ]_vars

\* two calls for one assembly have failed: the library loaded before the
\* failure is cached and was loaded once, the nested assembly and the file
\* its import names are not cached and the Loader was invoked twice for each
C29_Witness ==
    /\ Len(calls) = 2
    /\ \A c \in DOMAIN calls : calls[c].status = "done" /\ ~calls[c].result.ok
    /\ cleared = 0
    /\ DOMAIN cache = {FileL}
    /\ Count(FileL) = 1
    /\ Count(FileB) = 2
    /\ Count(FileN) = 2

(***************************************************************************)
(* One call on an acyclic import graph whose loads all succeed, with an    *)
(* empty cache.  The continuation of an await runs when its promise has    *)
(* settled, and the Loader's promises settle: the steps of a call are      *)
(* taken with weak fairness.                                               *)
(***************************************************************************)
\* the canonical paths the files imported by an assembly file import
Children(w, path) ==
    IF path \in DOMAIN Files(w) /\ Files(w)[path].t = "asm"
          /\ isAssemblyPath(path) /\ ~isLibraryPath(path)
    THEN {resolveImportPath(Files(w)[path].v.imports[k].path, dirname(path)) :
             k \in DOMAIN Files(w)[path].v.imports}
    ELSE {}

\* the canonical paths of the imports of a root
CanonicalImports(r) ==
    {resolveImportPath(r.asm.imports[j].path, r.base) : j \in DOMAIN r.asm.imports}

\* the canonical paths reachable from a root
RootReach(w, r) == UNION {Reach(w, p, MaxDepth) : p \in CanonicalImports(r)}

\* no file reachable from the root is reachable from its own imports
Acyclic(w, r) ==
    \A p \in RootReach(w, r) :
        p \notin UNION {Reach(w, q, MaxDepth) : q \in Children(w, p)}

\* every load the resolution of the root asks for succeeds
AllLoadsSucceed(w, r) == \A p \in CanonicalImports(r) : ~PathFails(w, p, MaxDepth)

TerminatingRoots(w) == {r \in Roots(w) : Acyclic(w, r) /\ AllLoadsSucceed(w, r)}

\* resolveDependencies is called once, for an assembly with an acyclic
\* import graph whose loads all succeed (l.47-52)
StartResolveAcyclic ==
    /\ calls = <<>>
    /\ \E r \in TerminatingRoots(world) :
          calls' = Append(calls, Call("resolve", r.asm, r.base, <<>>))
    /\ UNCHANGED <<world, cache, loadCount, cleared, input, executorVars>>

InitAcyclic ==
    /\ InitExecutor
    /\ world \in {w \in Worlds : TerminatingRoots(w) # {}}
    /\ cache = EmptyMap
    /\ calls = <<>>
    /\ loadCount = EmptyMap
    /\ cleared = 0
    /\ input = NoInput

\* a step of a call that is under way
CallSteps ==
    \E c \in DOMAIN calls : NextImport(c) \/ LoaderSettles(c) \/ ReturnResolved(c)

NextAcyclic ==
    \/ StartResolveAcyclic
    \/ \E c \in DOMAIN calls : NextImport(c)
    \/ \E c \in DOMAIN calls : LoaderSettles(c)
    \/ \E c \in DOMAIN calls : ReturnResolved(c)

SpecAcyclic == InitAcyclic /\ [][NextAcyclic]_vars /\ WF_vars(CallSteps)

\* C30: on an acyclic import graph whose loads all succeed, with an empty
\* cache at the start, resolveDependencies terminates; it returns a map
\* that binds every top-level alias; and the Loader is invoked exactly once
\* for every canonical path reachable from the assembly and for no other
\* path, at no time twice for one path.
C30_TerminatesOnceEach ==
    /\ [](\A c \in DOMAIN calls :
             LET cl == calls[c]
                 all == ReachUpTo(cl, Len(cl.asm.imports))
             IN  /\ \A p \in DOMAIN loadCount : loadCount[p] <= 1 /\ p \in all
                 /\ cl.status = "done" =>
                       /\ cl.result.ok
                       /\ \A i \in DOMAIN cl.asm.imports :
                             cl.asm.imports[i].alias \in DOMAIN cl.result.map
                       /\ \A p \in all : Count(p) = 1)
    /\ (calls # <<>>) ~> (calls # <<>> /\ calls[1].status = "done")

\* a call has returned whose second import names the library that the
\* nested assembly of its first import imports too: the Loader was invoked
\* once for the library and once for the nested assembly
C30_Witness ==
    /\ Len(calls) = 1
    /\ calls[1].status = "done" /\ calls[1].result.ok
    /\ Len(calls[1].asm.imports) = 2
    /\ ImportPath(calls[1], 1) = FileB
    /\ ImportPath(calls[1], 2) = FileL
    /\ FileL \in Children(world, FileB)
    /\ Count(FileL) = 1
    /\ Count(FileB) = 1
    /\ DOMAIN loadCount = {FileB, FileL}

====
